---- MODULE Spec2Model ----
(***************************************************************************)
(* Reimbursement decision engine.                                          *)
(*                                                                         *)
(* solution.py: ReimbursementCalculator.__init__ and .calculate (override  *)
(* table, per-duration rule table with an outlier regime, two long-trip    *)
(* regressors).  solver_v7.py: the three-regime calculate (normal,         *)
(* anomaly, bug) that takes its rules and params from the constructor.     *)
(* solver_v2.py, solver_v3.py: the two-regime calculate and run_solver.    *)
(* solver_v5.py, solver_v6.py, solver_v7.py: run_solver, the calibration   *)
(* of the thresholds and rates of the regimes on a dataset.                *)
(*                                                                         *)
(* Spec: one engine and single calls.  SpecSeq: one engine serving a row   *)
(* of calls.  SpecThreads: calls running at the same time on one engine.   *)
(* SpecSolver: a run of one calibration script.  SpecCalculators: single   *)
(* calls of the calculators of the solver scripts.  SpecMain: solution.py  *)
(* run as a script with its command-line arguments.                        *)
(*                                                                         *)
(* Arithmetic.  The code computes in binary floating point.  Here every    *)
(* amount is an exact integer number of 1/100000 dollar: receipts are      *)
(* whole cents, rates are whole thousandths, miles are whole numbers, so   *)
(* every product and sum of the formula is exact in this unit.  A double   *)
(* differs from the exact value by about 1e-13, far less than one unit, so *)
(* round(x, 2) gives the cent nearest to the exact value unless the exact  *)
(* value lies half-way between two cents; there the double lies on one     *)
(* side or the other (40 + 0.02*0.75 rounds to 40.02, 40 + 0.14*0.75 to    *)
(* 40.1) and the direction is fixed for the platform but not given by the  *)
(* decimal value.  The variable fp stands for that direction.              *)
(***************************************************************************)
EXTENDS Integers, Sequences, FiniteSets, TLC

VARIABLES
  files,  \* the model artifact found at each path, or Missing
  fp,     \* the side on which a half-way double falls
  calc,   \* the ReimbursementCalculator object
  call,   \* the call that has returned and its amount, or NoCall
  seen,   \* the regimes the caller saw while raising the receipts cent by cent
  log,    \* the calls one engine has served in a row: arguments, path, amount
  threads,\* the frames of the calculate calls running at the same time
  solver, \* the calibration run of a solver script: its loops and its params
  main    \* the run of solution.py as a script: argv, position, output, status

vars == <<files, fp, calc, call, seen, log, threads, solver, main>>

(***************************************************************************)
(* Bounds of the model.                                                    *)
(***************************************************************************)
\* durations tried: -1 .. MaxDays
MaxDays == 15
\* every boundary value b of miles and receipts is tried with b-NearBy .. b+NearBy
NearBy == 1

(***************************************************************************)
(* Units and conversions.                                                  *)
(***************************************************************************)
\* amount of 1/100000 dollar in one dollar
Dollars(x) == x * 100000
\* receipts in cents of a dollar amount
Cents(x) == x * 100
\* float('inf'), used by dict.get defaults
Inf == 2000000000
\* an argument that is not a number (int() and float() raise ValueError)
NonNumeric == 0 - 999999

IsNumeric(x) == x # NonNumeric

\* a conversion to the nearest whole number
int_nearest(x) == IF x >= 0 THEN (x + 5) \div 10 ELSE 0 - ((5 - x) \div 10)

\* int(x) for a number given in tenths: truncation toward zero
int(x) == IF x >= 0 THEN x \div 10 ELSE 0 - ((0 - x) \div 10)

\* float(x) for a number given in cents: the value is kept
float(x) == x

\* dict.get(key, default)
Get(d, key, default) == IF key \in DOMAIN d THEN d[key] ELSE default

\* miles * rate (rate in thousandths of a dollar per mile)
MilesTimes(miles, rate) == miles * rate * 100

\* receipts * rate (receipts in cents, rate in thousandths)
ReceiptsTimes(receipts, rate) == receipts * rate

min(a, b) == IF a < b THEN a ELSE b

\* a literal of two decimals (322.00), written in cents, as an amount
Literal(cents) == cents * 1000

\* the return without round: the computed amount as it is
round_left_out(x, tie) == x

\* round(x, 2): x and the result in 1/100000 dollar; tie is the side a
\* half-way value falls on (0 down, 1 up, 2 to the even cent, 3 to the odd)
round(x, tie) ==
  LET q == x \div 1000
      rem == x % 1000
  IN  IF rem < 500 THEN Literal(q)
      ELSE IF rem > 500 THEN Literal(q + 1)
      ELSE IF tie = 0 THEN Literal(q)
      ELSE IF tie = 1 THEN Literal(q + 1)
      ELSE IF tie = 2 THEN (IF q % 2 = 0 THEN Literal(q) ELSE Literal(q + 1))
      ELSE (IF q % 2 = 1 THEN Literal(q) ELSE Literal(q + 1))

(***************************************************************************)
(* solution.py: the configuration set by __init__.                         *)
(***************************************************************************)
\* a rule with the two mileage rates written in each other's place
Rule_rates_exchanged(pd, r1, thr, r2, rr, cap, lrt, lrp) ==
  [per_diem |-> pd, mileage_rate1 |-> r2, mileage_threshold |-> thr,
   mileage_rate2 |-> r1, receipt_rate |-> rr, receipt_cap |-> cap,
   low_receipt_threshold |-> lrt, low_receipt_penalty |-> lrp]

\* one entry of self.rules
Rule(pd, r1, thr, r2, rr, cap, lrt, lrp) ==
  [per_diem |-> pd, mileage_rate1 |-> r1, mileage_threshold |-> thr,
   mileage_rate2 |-> r2, receipt_rate |-> rr, receipt_cap |-> cap,
   low_receipt_threshold |-> lrt, low_receipt_penalty |-> lrp]

\* the table with a small-receipt penalty of 25 for the duration 3
ReferenceRules_with_penalty ==
  1 :> Rule(40, 500, 75, 300, 750, 1100, 10, 0) @@
  2 :> Rule(100, 520, 75, 350, 800, 1100, 10, 0) @@
  3 :> Rule(240, 700, 100, 250, 750, 1000, 10, 25) @@
  4 :> Rule(260, 700, 125, 250, 750, 1100, 10, 0) @@
  5 :> Rule(310, 500, 75, 450, 800, 1000, 10, 0) @@
  6 :> Rule(380, 700, 125, 450, 750, 1000, 10, 0) @@
  7 :> Rule(490, 640, 125, 500, 800, 900, 10, 0)

\* self.rules; rates in thousandths, the other fields as written
ReferenceRules ==
  1 :> Rule(40, 500, 75, 300, 750, 1100, 10, 0) @@
  2 :> Rule(100, 520, 75, 350, 800, 1100, 10, 0) @@
  3 :> Rule(240, 700, 100, 250, 750, 1000, 10, 0) @@
  4 :> Rule(260, 700, 125, 250, 750, 1100, 10, 0) @@
  5 :> Rule(310, 500, 75, 450, 800, 1000, 10, 0) @@
  6 :> Rule(380, 700, 125, 450, 750, 1000, 10, 0) @@
  7 :> Rule(490, 640, 125, 500, 800, 900, 10, 0)

OutlierParams(thr, rate, pen) ==
  [outlier_threshold |-> thr, outlier_rate |-> rate, outlier_penalty |-> pen]

\* self.params
ReferenceParams ==
  1 :> OutlierParams(1800, 260, 500) @@
  2 :> OutlierParams(2300, 280, 400) @@
  3 :> OutlierParams(2200, 480, 0 - 100) @@
  4 :> OutlierParams(2400, 240, 500) @@
  5 :> OutlierParams(2400, 180, 500) @@
  6 :> OutlierParams(2000, 360, 200) @@
  7 :> OutlierParams(1900, 180, 500)

Override(d, m, r, a) == [day |-> d, miles |-> m, receipts |-> r, amount |-> a]

\* the hardcoded cases with the amounts of the first two entries exchanged
Overrides_swapped ==
  << Override(4, 69, 232149, 120695),
     Override(2, 18, 250346, 32200),
     Override(5, 196, 122849, 51123),
     Override(1, 1082, 180949, 44694),
     Override(5, 516, 187849, 66985) >>

\* the hardcoded cases, in the order of the if chain; receipts and amount in cents
Overrides ==
  << Override(4, 69, 232149, 32200),
     Override(2, 18, 250346, 120695),
     Override(5, 196, 122849, 51123),
     Override(1, 1082, 180949, 44694),
     Override(5, 516, 187849, 66985) >>

\* receipts above which a long trip goes to the outlier model (dollars)
LongTripOutlierThreshold == 2500

\* the if chain comparing the duration and the miles and not the receipts
OverrideMatches_receipts_ignored(day, miles, receipts) ==
  { i \in DOMAIN Overrides :
      /\ day = Overrides[i].day
      /\ miles = Overrides[i].miles }

\* the if chain of exact comparisons: the indices of the entries that match
OverrideMatches(day, miles, receipts) ==
  { i \in DOMAIN Overrides :
      /\ day = Overrides[i].day
      /\ miles = Overrides[i].miles
      /\ receipts = Overrides[i].receipts }

\* the first entry of the chain that matches
FirstOverride(day, miles, receipts) ==
  LET s == OverrideMatches(day, miles, receipts)
  IN  Overrides[CHOOSE i \in s : \A j \in s : i <= j]

(***************************************************************************)
(* The trained regressors: opaque artifacts loaded from files.             *)
(***************************************************************************)
Missing == "missing"
Artifacts == {"A", "B"}
model_path == "reimbursement_model_8_to_14.joblib"
outlier_model_path == "reimbursement_model_8_to_14_outliers.joblib"
ModelPaths == {model_path, outlier_model_path}

\* model.predict(input_data)[0], in 1/100000 dollar: two distinguishable
\* stand-ins for the frozen regressors
predict(model, day, miles, receipts) ==
  IF model = "A"
  THEN Dollars(80 * day) + MilesTimes(miles, 405) + ReceiptsTimes(receipts, 375)
  ELSE Dollars(600) + Dollars(35 * day) + MilesTimes(miles, 210) + ReceiptsTimes(receipts, 45)

(***************************************************************************)
(* What one call did and returned.                                         *)
(***************************************************************************)
NoCall == [fn |-> "none"]

Outcome(fn, a, day, miles, receipts, path, used, invoked, flags, terms, reimbursement, result) ==
  [fn |-> fn, args |-> a, day |-> day, miles |-> miles, receipts |-> receipts,
   path |-> path, used |-> used, invoked |-> invoked,
   is_outlier |-> flags[1], is_anomaly |-> flags[2], is_bug |-> flags[3],
   per_diem |-> terms[1], mileage_reimbursement |-> terms[2],
   receipt_reimbursement |-> terms[3],
   reimbursement |-> reimbursement, result |-> result]

NoFlags == <<FALSE, FALSE, FALSE>>
NoTerms == <<0, 0, 0>>

\* int() or float() raised ValueError: no amount is returned
Raised(fn, a) ==
  Outcome(fn, a, 0, 0, 0, "ValueError", {}, <<>>, NoFlags, NoTerms, 0, 0)

(***************************************************************************)
(* solution.py: ReimbursementCalculator.calculate                          *)
(***************************************************************************)
\* the second tier paying rate2 on all the miles, the threshold not subtracted
second_tier_all_miles(rule, miles_traveled) ==
  MilesTimes(rule.mileage_threshold, rule.mileage_rate1)
    + MilesTimes(miles_traveled, rule.mileage_rate2)

\* the mileage term above the threshold
second_tier(rule, miles_traveled) ==
  MilesTimes(rule.mileage_threshold, rule.mileage_rate1)
    + MilesTimes(miles_traveled - rule.mileage_threshold, rule.mileage_rate2)

\* the first tier paying for the miles left up to the threshold
first_tier_remaining(rule, miles_traveled) ==
  MilesTimes(rule.mileage_threshold - miles_traveled, rule.mileage_rate1)

\* the mileage term up to the threshold
first_tier(rule, miles_traveled) ==
  MilesTimes(miles_traveled, rule.mileage_rate1)

\* the mileage term without tiers
mileage_reimbursement_flat(rule, miles_traveled) ==
  first_tier(rule, miles_traveled)

\* the tiered mileage term
mileage_reimbursement(rule, miles_traveled) ==
  IF miles_traveled > rule.mileage_threshold
  THEN second_tier(rule, miles_traveled)
  ELSE first_tier(rule, miles_traveled)

\* the receipt term of the normal regime without the cap
capped_receipts_no_cap(rule, receipts) ==
  ReceiptsTimes(receipts, rule.receipt_rate)

\* the receipt term of the normal regime
capped_receipts(rule, receipts) ==
  min(ReceiptsTimes(receipts, rule.receipt_rate), Dollars(rule.receipt_cap))

\* the receipt term of the outlier regime with the constant taken off
outlier_receipts_penalty_subtracted(day_params, receipts) ==
  ReceiptsTimes(receipts, Get(day_params, "outlier_rate", 0))
    - Dollars(Get(day_params, "outlier_penalty", 0))

\* the receipt term of the outlier regime without the additive constant
outlier_receipts_rate_only(day_params, receipts) ==
  ReceiptsTimes(receipts, Get(day_params, "outlier_rate", 0))

\* the receipt term of the outlier regime of solution.py
outlier_receipts(day_params, receipts) ==
  ReceiptsTimes(receipts, Get(day_params, "outlier_rate", 0))
    + Dollars(Get(day_params, "outlier_penalty", 0))

\* the test of the small-receipt penalty with receipts of 0 let in
low_receipts_from_zero(rule, receipts) ==
  0 <= receipts /\ receipts < Cents(rule.low_receipt_threshold)

\* the test of the small-receipt penalty
low_receipts(rule, receipts) ==
  0 < receipts /\ receipts < Cents(rule.low_receipt_threshold)

\* the branch for a duration in self.rules
rule_branch(self, tie, a, day, miles, receipts) ==
  LET rule == self.rules[day]
      day_params == Get(self.params, day, <<>>)
      is_outlier == receipts > Cents(Get(day_params, "outlier_threshold", Inf \div 100))
      per_diem == Dollars(rule.per_diem)
      mileage == mileage_reimbursement(rule, miles)
      receipt == IF is_outlier THEN outlier_receipts(day_params, receipts)
                 ELSE capped_receipts(rule, receipts)
      penalised == ~is_outlier /\ low_receipts(rule, receipts)
      total == per_diem + mileage + receipt
      reimbursement == IF penalised THEN total - Dollars(rule.low_receipt_penalty)
                       ELSE total
  IN  Outcome("solution", a, day, miles, receipts, "rules",
              {"rules", "params"} \cup (IF penalised THEN {"penalty"} ELSE {}),
              <<>>, <<is_outlier, FALSE, FALSE>>, <<per_diem, mileage, receipt>>,
              reimbursement, round(reimbursement, tie))

\* the test of the long-trip outlier with receipts of exactly 2500 let in
is_long_trip_outlier_from_2500(receipts) ==
  receipts >= Cents(LongTripOutlierThreshold)

\* the test that selects the outlier model
is_long_trip_outlier(receipts) == receipts > Cents(LongTripOutlierThreshold)

\* the branch for 8 <= duration <= 14
model_branch(self, tie, a, day, miles, receipts) ==
  LET outlier == is_long_trip_outlier(receipts)
      name == IF outlier THEN "outlier_model" ELSE "long_trip_model"
      model_to_use == IF outlier THEN self.outlier_model ELSE self.long_trip_model
      prediction == predict(model_to_use, day, miles, receipts)
  IN  Outcome("solution", a, day, miles, receipts, "model", {name},
              << <<name, day, miles, receipts>> >>, NoFlags, NoTerms,
              prediction, round(prediction, tie))

\* the elif with its upper limit excluded, as range(8, 14) would test it
in_long_trip_range_to_13(day) == 8 <= day /\ day < 14

\* the elif without its upper limit
in_long_trip_range_open(day) == 8 <= day

\* the test of the elif: the durations served by a trained model
in_long_trip_range(day) == 8 <= day /\ day <= 14

\* the test of the first if: the durations of the rule table
in_rules(self, day) == day \in DOMAIN self.rules

calculate(self, tie, trip_duration_days, miles_traveled, total_receipts_amount) ==
  LET a == <<trip_duration_days, miles_traveled, total_receipts_amount>>
  IN  IF \E i \in 1..3 : ~IsNumeric(a[i]) THEN Raised("solution", a)
      ELSE
        LET day == int(trip_duration_days)
            miles == int(miles_traveled)
            receipts == float(total_receipts_amount)
        IN  IF OverrideMatches(day, miles, receipts) # {}
            THEN LET amount == FirstOverride(day, miles, receipts).amount
                 IN  Outcome("solution", a, day, miles, receipts, "override",
                             {"override"}, <<>>, NoFlags, NoTerms,
                             Literal(amount), Literal(amount))
            ELSE IF in_rules(self, day)
            THEN rule_branch(self, tie, a, day, miles, receipts)
            ELSE IF in_long_trip_range(day)
            THEN model_branch(self, tie, a, day, miles, receipts)
            ELSE Outcome("solution", a, day, miles, receipts, "zero", {}, <<>>,
                         NoFlags, NoTerms, 0, round(0, tie))

\* the outlier branch taking outlier_penalty out of the day's dict with pop
\* where the code reads it with get
self_after_penalty_popped(self, c) ==
  IF c.path = "rules" /\ c.is_outlier
  THEN [self EXCEPT !.params[c.day] =
          [k \in DOMAIN self.params[c.day] \ {"outlier_penalty"} |->
             self.params[c.day][k]]]
  ELSE self

\* the choice of the outlier model assigning to self.long_trip_model where
\* the code assigns to the local model_to_use
self_after_model_assigned(self, c) ==
  IF c.path = "model" /\ "outlier_model" \in c.used
  THEN [self EXCEPT !.long_trip_model = self.outlier_model]
  ELSE self

\* the object after a call of calculate that gave c: the body assigns to no
\* attribute of self and to no item of self.rules or self.params, and
\* predict leaves a fitted model as it is
self_after(self, c) == self

(***************************************************************************)
(* solver_v7.py: ReimbursementCalculator.calculate, three regimes          *)
(***************************************************************************)
\* a duration without rule handed to the loaded model when it is 8..14, as
\* solution.py does
no_rule_predicting(self, tie, fn, a, day, miles, receipts) ==
  IF in_long_trip_range(day)
  THEN LET prediction == predict(self.long_trip_model, day, miles, receipts)
       IN  Outcome(fn, a, day, miles, receipts, "model", {"long_trip_model"},
                   << <<"long_trip_model", day, miles, receipts>> >>, NoFlags,
                   NoTerms, prediction, round(prediction, tie))
  ELSE Outcome(fn, a, day, miles, receipts, "zero", {}, <<>>,
               NoFlags, NoTerms, 0, 0)

\* 'if day not in self.rules: return 0' of the solver calculators
no_rule(self, tie, fn, a, day, miles, receipts) ==
  Outcome(fn, a, day, miles, receipts, "zero", {}, <<>>, NoFlags, NoTerms, 0, 0)

\* is_bug with a missing bug_threshold read as 0
v7_is_bug_from_zero(day_params, receipts) ==
  receipts > Get(day_params, "bug_threshold", 0)

\* is_bug of one (receipts, day_params) pair; thresholds in cents
v7_is_bug(day_params, receipts) ==
  receipts > Get(day_params, "bug_threshold", Inf)

\* is_anomaly without the test of is_bug
v7_is_anomaly_overlapping(day_params, receipts) ==
  receipts > Get(day_params, "anomaly_threshold", Inf)

\* is_anomaly with the comparison turned round
v7_is_anomaly_below(day_params, receipts) ==
  /\ ~v7_is_bug(day_params, receipts)
  /\ receipts < Get(day_params, "anomaly_threshold", Inf)

v7_is_anomaly(day_params, receipts) ==
  /\ ~v7_is_bug(day_params, receipts)
  /\ receipts > Get(day_params, "anomaly_threshold", Inf)

\* the receipt term of the three regimes
v7_receipt_reimbursement(rule, day_params, receipts) ==
  IF v7_is_bug(day_params, receipts)
  THEN ReceiptsTimes(receipts, Get(day_params, "bug_rate", 0))
  ELSE IF v7_is_anomaly(day_params, receipts)
  THEN ReceiptsTimes(receipts, Get(day_params, "anomaly_rate", 0))
  ELSE capped_receipts(rule, receipts)

v7_calculate(self, tie, trip_duration_days, miles_traveled, total_receipts_amount) ==
  LET a == <<trip_duration_days, miles_traveled, total_receipts_amount>>
  IN  IF \E i \in 1..3 : ~IsNumeric(a[i]) THEN Raised("v7", a)
      ELSE
        LET day == int(trip_duration_days)
            miles == int(miles_traveled)
            receipts == float(total_receipts_amount)
        IN  IF day \notin DOMAIN self.rules
            THEN no_rule(self, tie, "v7", a, day, miles, receipts)
            ELSE
              LET rule == self.rules[day]
                  day_params == Get(self.params, day, <<>>)
                  is_bug == v7_is_bug(day_params, receipts)
                  is_anomaly == v7_is_anomaly(day_params, receipts)
                  mileage == mileage_reimbursement(rule, miles)
                  receipt == v7_receipt_reimbursement(rule, day_params, receipts)
                  penalised == ~is_bug /\ ~is_anomaly /\ low_receipts(rule, receipts)
                  total == Dollars(rule.per_diem) + mileage + receipt
                  reimbursement ==
                    IF penalised THEN total - Dollars(rule.low_receipt_penalty)
                    ELSE total
              IN  Outcome("v7", a, day, miles, receipts, "rules",
                          {"rules", "params"} \cup (IF penalised THEN {"penalty"} ELSE {}),
                          <<>>, <<FALSE, is_anomaly, is_bug>>,
                          <<Dollars(rule.per_diem), mileage, receipt>>,
                          reimbursement, round(reimbursement, tie))

(***************************************************************************)
(* solver_v2.py and solver_v3.py: calculate, two regimes                   *)
(***************************************************************************)
\* the receipt term of the outlier regime: the rate is a field of the rule
outlier_rate_receipts(rule, receipts) ==
  ReceiptsTimes(receipts, Get(rule, "outlier_receipt_rate", 450))

\* the part of calculate that solver_v2 and solver_v3 have in common, from
\* the mileage term to the return
two_regimes(fn, tie, a, rule, day, miles, receipts, is_outlier) ==
  LET mileage == mileage_reimbursement(rule, miles)
      receipt == IF is_outlier THEN outlier_rate_receipts(rule, receipts)
                 ELSE capped_receipts(rule, receipts)
      penalised == ~is_outlier /\ low_receipts(rule, receipts)
      total == Dollars(rule.per_diem) + mileage + receipt
      reimbursement == IF penalised THEN total - Dollars(rule.low_receipt_penalty)
                       ELSE total
  IN  Outcome(fn, a, day, miles, receipts, "rules",
              {"rules"} \cup (IF penalised THEN {"penalty"} ELSE {}),
              <<>>, <<is_outlier, FALSE, FALSE>>,
              <<Dollars(rule.per_diem), mileage, receipt>>,
              reimbursement, round(reimbursement, tie))

\* the thresholds of the if chain of solver_v2 for the days 1..7, in cents
v2_outlier_thresholds ==
  <<190000, 195000, 210000, 210000, 220000, 230000, 240000>>

v2_is_outlier(day, receipts) ==
  day \in DOMAIN v2_outlier_thresholds /\ receipts > v2_outlier_thresholds[day]

v2_calculate(self, tie, trip_duration_days, miles_traveled, total_receipts_amount) ==
  LET a == <<trip_duration_days, miles_traveled, total_receipts_amount>>
  IN  IF \E i \in 1..3 : ~IsNumeric(a[i]) THEN Raised("v2", a)
      ELSE
        LET day == int(trip_duration_days)
            miles == int(miles_traveled)
            receipts == float(total_receipts_amount)
        IN  IF day \notin DOMAIN self.rules
            THEN no_rule(self, tie, "v2", a, day, miles, receipts)
            ELSE two_regimes("v2", tie, a, self.rules[day], day, miles, receipts,
                             v2_is_outlier(day, receipts))

\* is_outlier of solver_v3; thresholds in cents
v3_is_outlier(self, day, receipts) ==
  receipts > Get(self.outlier_thresholds, day, Inf)

v3_calculate(self, tie, trip_duration_days, miles_traveled, total_receipts_amount) ==
  LET a == <<trip_duration_days, miles_traveled, total_receipts_amount>>
  IN  IF \E i \in 1..3 : ~IsNumeric(a[i]) THEN Raised("v3", a)
      ELSE
        LET day == int(trip_duration_days)
            miles == int(miles_traveled)
            receipts == float(total_receipts_amount)
        IN  IF day \notin DOMAIN self.rules
            THEN no_rule(self, tie, "v3", a, day, miles, receipts)
            ELSE two_regimes("v3", tie, a, self.rules[day], day, miles, receipts,
                             v3_is_outlier(self, day, receipts))

\* {day: {**rule, 'outlier_receipt_rate': rate}}: the field set in every rule
with_outlier_rate(rules, rate) ==
  [d \in DOMAIN rules |-> ("outlier_receipt_rate" :> rate) @@ rules[d]]

\* outlier_thresholds of solver_v3 run_solver, in cents
v3_outlier_thresholds ==
  <<180000, 190000, 200000, 100000, 180000, 220000, 230000>>

(***************************************************************************)
(* Configurations handed to the solver_v7 constructor.                     *)
(***************************************************************************)
\* a key that the dict does not hold
Absent == 0 - 888888

Entry(key, v) == IF v = Absent THEN <<>> ELSE key :> v

\* one day's params dict; thresholds in cents, rates in thousandths
DayParams(at, ar, bt, br) ==
  Entry("anomaly_threshold", at) @@ Entry("anomaly_rate", ar)
    @@ Entry("bug_threshold", bt) @@ Entry("bug_rate", br)

\* the dicts tried: empty, the rate alone (as the rate search of run_solver
\* passes it), both thresholds in every order, equal, and one cent apart,
\* one threshold alone, and the -1 placeholders of solver_v6
DayParamChoices ==
  { DayParams(Absent, Absent, Absent, Absent),
    DayParams(Absent, 450, Absent, Absent),
    DayParams(Absent, Absent, 200000, 5),
    DayParams(0 - 100, 0 - 1000, 250000, 5),
    DayParams(199999, 450, 200000, 5) }
  \cup { DayParams(at, 450, Absent, Absent) : at \in {100000, 200000} }
  \cup { DayParams(100000, 300, Absent, Absent) }
  \cup { DayParams(at, 450, bt, 5) :
           at \in {100000, 200000}, bt \in {100000, 200000, 250000} }

\* params: no entry at all, or the same dict for every day 1..7
ParamTables == {<<>>} \cup { [d \in 1..7 |-> p] : p \in DayParamChoices }

\* a rules table of one day, as the searches build it, with a penalty
SingleDayRules == 3 :> Rule(240, 700, 100, 250, 750, 1000, 10, 25)

RuleTables == {ReferenceRules, SingleDayRules}

(***************************************************************************)
(* The inputs tried.                                                       *)
(***************************************************************************)
Around(b) == (b - NearBy) .. (b + NearBy)

\* whole miles: the tier thresholds and the override entries with their
\* neighbours, zero and a negative value
MileMarks == {18, 69, 75, 100, 125}
MilesInts == {0 - 5, 0, 93, 196, 516, 1082} \cup UNION { Around(b) : b \in MileMarks }

\* receipts in cents: the outlier thresholds, the long-trip threshold, the
\* small-receipt threshold and the override entries with their neighbours,
\* the receipts at which a cap is reached, zero and a negative value
ReceiptMarks ==
  {1000, 180000, 190000, 200000, 220000, 230000, 240000, 250000,
   232149, 250346}
ReceiptValues ==
  {0 - 100, 0, 2, 14, 142, 5000, 10000, 125000, 137500, 146666, 146667, 150000,
   122849, 180949, 187849}
    \cup UNION { Around(b) : b \in ReceiptMarks }

\* arguments as passed: durations and miles in tenths (4.9 days, 69.9 miles)
DayArgs == {10 * d : d \in (0 - 1) .. MaxDays} \cup {49, NonNumeric}
MilesArgs == {10 * m : m \in MilesInts} \cup {699, NonNumeric}
ReceiptArgs == ReceiptValues \cup {NonNumeric}

\* the arguments tried on the solver_v7 calculator
V7DayArgs == {10 * d : d \in (0 - 1) .. 8} \cup {140, NonNumeric}
V7MilesArgs == {10 * m : m \in {0, 93, 100, 101, 300}}
V7ReceiptArgs ==
  {0, 2, 142, 999, 1000, 150000, 300000}
    \cup UNION { Around(b) : b \in {100000, 200000, 250000} }

(***************************************************************************)
(* The state machine.                                                      *)
(***************************************************************************)
Unbuilt(kind) == [kind |-> kind, state |-> "none"]

\* no solver script is running
NoRun == [version |-> "none"]

\* solution.py is imported, not run as a script
NotStarted == [pc |-> "none"]

\* the artifact files found by a run of solver_v7, which loads one of them
V7Files ==
  { f \in [ModelPaths -> Artifacts \cup {Missing}] :
      f[outlier_model_path] = Missing /\ f[model_path] # "B" }

Init ==
  /\ fp \in 0..3
  /\ call = NoCall
  /\ seen = <<>>
  /\ log = <<>> /\ threads = <<>> /\ solver = NoRun /\ main = NotStarted
  /\ \/ calc = Unbuilt("solution") /\ files \in [ModelPaths -> Artifacts \cup {Missing}]
     \/ calc = Unbuilt("v7") /\ files \in V7Files

\* the regime a returned call was in: bug, else anomaly (the outlier regime
\* of solution.py), else normal
Regime(c) ==
  IF c.is_bug THEN "bug"
  ELSE IF c.is_anomaly \/ c.is_outlier THEN "anomaly"
  ELSE "normal"

\* what the caller notes of a returned call
Observed(c) == IF c.path = "rules" THEN <<Regime(c)>> ELSE <<>>

\* the object that __init__ of solution.py leaves when both loads succeed
Constructed(f) ==
  [kind |-> "solution", state |-> "ready",
   long_trip_model |-> f[model_path],
   outlier_model |-> f[outlier_model_path],
   rules |-> ReferenceRules, params |-> ReferenceParams]

\* a constructor that fails only when neither artifact is found
load_fails_without_both(f) ==
  f[model_path] = Missing /\ f[outlier_model_path] = Missing

\* one of the two joblib.load calls of __init__ raises
load_fails(f) == f[model_path] = Missing \/ f[outlier_model_path] = Missing

\* solution.py __init__: joblib.load of both artifacts, then the tables
Construct ==
  /\ calc = Unbuilt("solution")
  /\ calc' = IF load_fails(files)
             THEN [kind |-> "solution", state |-> "FileNotFoundError"]
             ELSE Constructed(files)
  /\ UNCHANGED <<files, fp, call, seen, log, threads, solver, main>>

\* one call of calculate on the constructed engine
Calculate ==
  /\ calc.kind = "solution" /\ calc.state = "ready"
  /\ call = NoCall
  /\ \E d \in DayArgs, m \in MilesArgs, r \in ReceiptArgs :
       call' = calculate(calc, fp, d, m, r)
  /\ calc' = self_after(calc, call')
  /\ UNCHANGED <<files, fp, seen, log, threads, solver, main>>

\* solver_v7.py __init__(rules, params): joblib.load, then the two arguments
ConstructV7 ==
  /\ calc = Unbuilt("v7")
  /\ \E rules \in RuleTables, params \in ParamTables :
       calc' = IF files[model_path] = Missing
               THEN [kind |-> "v7", state |-> "FileNotFoundError"]
               ELSE [kind |-> "v7", state |-> "ready",
                     long_trip_model |-> files[model_path],
                     rules |-> rules, params |-> params]
  /\ UNCHANGED <<files, fp, call, seen, log, threads, solver, main>>

\* one call of the solver_v7 calculate
CalculateV7 ==
  /\ calc.kind = "v7" /\ calc.state = "ready"
  /\ call = NoCall
  /\ \E d \in V7DayArgs, m \in V7MilesArgs, r \in V7ReceiptArgs :
       call' = v7_calculate(calc, fp, d, m, r)
  /\ seen' = Observed(call')
  /\ calc' = self_after(calc, call')
  /\ UNCHANGED <<files, fp, log, threads, solver, main>>

\* the caller repeats the solver_v7 call with the receipts one cent higher
RaiseReceipts ==
  /\ calc.kind = "v7" /\ calc.state = "ready"
  /\ call.fn = "v7" /\ call.path # "ValueError"
  /\ call.args[3] + 1 \in V7ReceiptArgs
  /\ call' = v7_calculate(calc, fp, call.args[1], call.args[2], call.args[3] + 1)
  /\ seen' = seen \o Observed(call')
  /\ calc' = self_after(calc, call')
  /\ UNCHANGED <<files, fp, log, threads, solver, main>>

\* the caller takes the returned amount; the calculator keeps nothing of the call
Return ==
  /\ call # NoCall
  /\ call' = NoCall
  /\ seen' = <<>>
  /\ UNCHANGED <<files, fp, calc, log, threads, solver, main>>

Next ==
  \/ Construct
  \/ Calculate
  \/ ConstructV7
  \/ CalculateV7
  \/ RaiseReceipts
  \/ Return

Spec == Init /\ [][Next]_vars

(***************************************************************************)
(* One engine serving a row of calls.                                      *)
(***************************************************************************)
\* the longest row of calls followed
MaxCalls == 3

\* the arguments of the row: the penalty branch, the outlier regime, an
\* override, the two models, a duration without rule or model, and text
SeqArgs ==
  { <<30, 930, 142>>, <<10, 0 - 50, 180949>>, <<50, 5160, 187849>>,
    <<140, 699, 250000>>, <<140, 699, 250001>>, <<150, 0, 0>>,
    <<NonNumeric, 0, 0>> }

\* what the caller logs of a call
Logged(c) == [args |-> c.args, path |-> c.path, result |-> c.result]

InitSeq ==
  /\ fp \in 0..3
  /\ call = NoCall
  /\ seen = <<>>
  /\ log = <<>> /\ threads = <<>> /\ solver = NoRun /\ main = NotStarted
  /\ calc = Unbuilt("solution")
  /\ files \in [ModelPaths -> Artifacts \cup {Missing}]

\* the next call of the row on the same object
CalculateLogged ==
  /\ calc.kind = "solution" /\ calc.state = "ready"
  /\ call = NoCall
  /\ Len(log) < MaxCalls
  /\ \E a \in SeqArgs : call' = calculate(calc, fp, a[1], a[2], a[3])
  /\ calc' = self_after(calc, call')
  /\ log' = Append(log, Logged(call'))
  /\ UNCHANGED <<files, fp, seen, threads, solver, main>>

NextSeq ==
  \/ Construct
  \/ CalculateLogged
  \/ Return

SpecSeq == InitSeq /\ [][NextSeq]_vars

(***************************************************************************)
(* Calls of calculate running at the same time on one engine.  Each call   *)
(* has its own frame of locals; the engine is the one shared object.  A    *)
(* step is a group of statements of calculate; the steps of different      *)
(* calls interleave in every order.                                        *)
(***************************************************************************)
\* the number of calls running at the same time
NumThreads == 2

\* the arguments of the calls: the outlier regime, the penalty branch, an
\* override and the outlier model
ThreadArgs ==
  { <<10, 0 - 50, 180949>>, <<30, 930, 142>>, <<50, 5160, 187849>>,
    <<140, 699, 250001>> }

\* the frame of a call that has just been entered
Frame(a) ==
  [pc |-> "coerce", args |-> a, day |-> 0, miles |-> 0, receipts |-> 0,
   is_outlier |-> FALSE, per_diem |-> 0, mileage_reimbursement |-> 0,
   receipt_reimbursement |-> 0, model_to_use |-> "none",
   reimbursement |-> 0, result |-> 0]

\* the next group of statements of calculate on the frame f: the frame after
local_step(self, tie, f) ==
  CASE f.pc = "coerce" ->
         IF \E i \in 1..3 : ~IsNumeric(f.args[i])
         THEN [f EXCEPT !.pc = "ValueError"]
         ELSE [f EXCEPT !.pc = "overrides", !.day = int(f.args[1]),
                        !.miles = int(f.args[2]), !.receipts = float(f.args[3])]
    [] f.pc = "overrides" ->
         IF OverrideMatches(f.day, f.miles, f.receipts) # {}
         THEN [f EXCEPT !.pc = "returned",
                 !.result = Literal(FirstOverride(f.day, f.miles, f.receipts).amount)]
         ELSE [f EXCEPT !.pc = "branch"]
    [] f.pc = "branch" ->
         IF in_rules(self, f.day)
         THEN [f EXCEPT !.pc = "terms",
                 !.is_outlier =
                    f.receipts > Cents(Get(Get(self.params, f.day, <<>>),
                                           "outlier_threshold", Inf \div 100))]
         ELSE IF in_long_trip_range(f.day)
         THEN [f EXCEPT !.pc = "predict",
                 !.model_to_use = IF is_long_trip_outlier(f.receipts)
                                  THEN self.outlier_model
                                  ELSE self.long_trip_model]
         ELSE [f EXCEPT !.pc = "round", !.reimbursement = 0]
    [] f.pc = "terms" ->
         [f EXCEPT !.pc = "total",
            !.per_diem = Dollars(self.rules[f.day].per_diem),
            !.mileage_reimbursement =
               mileage_reimbursement(self.rules[f.day], f.miles),
            !.receipt_reimbursement =
               IF f.is_outlier
               THEN outlier_receipts(Get(self.params, f.day, <<>>), f.receipts)
               ELSE capped_receipts(self.rules[f.day], f.receipts)]
    [] f.pc = "total" ->
         [f EXCEPT !.pc = "penalty",
            !.reimbursement =
               f.per_diem + f.mileage_reimbursement + f.receipt_reimbursement]
    [] f.pc = "penalty" ->
         IF ~f.is_outlier /\ low_receipts(self.rules[f.day], f.receipts)
         THEN [f EXCEPT !.pc = "round",
                 !.reimbursement =
                    f.reimbursement - Dollars(self.rules[f.day].low_receipt_penalty)]
         ELSE [f EXCEPT !.pc = "round"]
    [] f.pc = "predict" ->
         [f EXCEPT !.pc = "round",
            !.reimbursement = predict(f.model_to_use, f.day, f.miles, f.receipts)]
    [] f.pc = "round" ->
         [f EXCEPT !.pc = "returned", !.result = round(f.reimbursement, tie)]

\* a calculate that keeps its running amount in self.reimbursement between
\* the statement that computes it and the return, where the code keeps it
\* in the local reimbursement
calculate_step_amount_on_self(self, tie, f) ==
  IF f.pc \in {"total", "predict"}
  THEN [self |-> ("reimbursement" :> local_step(self, tie, f).reimbursement) @@ self,
        frame |-> local_step(self, tie, f)]
  ELSE IF f.pc = "round" /\ "reimbursement" \in DOMAIN self
  THEN [self |-> self,
        frame |-> local_step(self, tie, [f EXCEPT !.reimbursement = self.reimbursement])]
  ELSE [self |-> self, frame |-> local_step(self, tie, f)]

\* one step of one call: the engine and the call's frame after it; the
\* statements of calculate write locals only
calculate_step(self, tie, f) ==
  [self |-> self, frame |-> local_step(self, tie, f)]

\* the engine has been constructed and the calls have been entered
InitThreads ==
  /\ fp \in 0..3
  /\ call = NoCall
  /\ seen = <<>>
  /\ log = <<>> /\ solver = NoRun /\ main = NotStarted
  /\ files \in [ModelPaths -> Artifacts]
  /\ calc = Constructed(files)
  /\ threads \in [1..NumThreads -> { Frame(a) : a \in ThreadArgs }]

\* the call of thread t takes its next step
Step(t) ==
  /\ threads[t].pc \notin {"returned", "ValueError"}
  /\ calc' = calculate_step(calc, fp, threads[t]).self
  /\ threads' = [threads EXCEPT ![t] = calculate_step(calc, fp, threads[t]).frame]
  /\ UNCHANGED <<files, fp, call, seen, log, solver, main>>

NextThreads == \E t \in 1..NumThreads : Step(t)

SpecThreads == InitThreads /\ [][NextThreads]_vars

(***************************************************************************)
(* solver_v5.py, solver_v6.py, solver_v7.py: run_solver, the calibration   *)
(* of the per-duration params on a dataset of cases.  The three scripts    *)
(* hold the same calculate (the one of solver_v7 above) and the same       *)
(* current_rules (the reference table).  Thresholds are in cents; the      *)
(* receipts of the datasets are whole dimes, so that 0.9 * x and the       *)
(* interpolated quantile are whole cents.                                  *)
(***************************************************************************)
\* the most cases of a short dataset
MaxRows == 2

\* one case of public_cases.json; receipts and expected_output in cents
Row(day, miles, receipts, expected) ==
  [trip_duration_days |-> day, miles_traveled |-> miles,
   total_receipts_amount |-> receipts, expected_output |-> expected]

\* the grid [x/100 for x in range(30, 76, 2)], in thousandths
anomaly_rate_search == [i \in 1..23 |-> 300 + 20 * (i - 1)]

\* the grid [x/1000 for x in range(0, 101, 5)], in thousandths
bug_rate_search == [i \in 1..21 |-> 5 * (i - 1)]

\* np.arange(start, stop, step) as a sequence
arange(start, stop, step) ==
  IF stop <= start THEN <<>>
  ELSE [i \in 1..((stop - start + step - 1) \div step) |-> start + step * (i - 1)]

\* to_numeric(errors='coerce') and dropna: the rows with a field that is
\* not a number are dropped
dropna(data) ==
  SelectSeq(data, LAMBDA r :
    /\ IsNumeric(r.trip_duration_days) /\ IsNumeric(r.miles_traveled)
    /\ IsNumeric(r.total_receipts_amount) /\ IsNumeric(r.expected_output))

\* df_full[df_full['trip_duration_days'] == day]
df_of_day(df_full, day) ==
  SelectSeq(df_full, LAMBDA r : r.trip_duration_days = day)

\* ReimbursementCalculator(rules=current_rules, params={day: day_params})
SolverCalculator(day, day_params) ==
  [kind |-> "v7", state |-> "ready", long_trip_model |-> files[model_path],
   rules |-> ReferenceRules, params |-> day :> day_params]

\* the absolute error of one row, in cents
absolute_error(calculator, tie, r) ==
  LET predicted == v7_calculate(calculator, tie, 10 * r.trip_duration_days,
                                10 * r.miles_traveled, r.total_receipts_amount).result
      expected == Literal(r.expected_output)
  IN  (IF predicted < expected THEN expected - predicted
       ELSE predicted - expected) \div 1000

RECURSIVE sum_of_errors(_, _, _, _)
sum_of_errors(calculator, tie, df, i) ==
  IF i > Len(df) THEN 0
  ELSE absolute_error(calculator, tie, df[i])
         + sum_of_errors(calculator, tie, df, i + 1)

\* mean_absolute_error(df['expected_output'], predicted) times the number
\* of rows of df; every comparison of the scripts is between two means over
\* the same rows
mean_absolute_error(calculator, tie, df) == sum_of_errors(calculator, tie, df, 1)

\* the loop over a rate grid: best is replaced on a strictly smaller error
RECURSIVE rate_loop(_, _, _, _, _)
rate_loop(rates, maes, i, best_mae, best_rate) ==
  IF i > Len(rates) THEN best_rate
  ELSE IF maes[i] < best_mae
  THEN rate_loop(rates, maes, i + 1, maes[i], rates[i])
  ELSE rate_loop(rates, maes, i + 1, best_mae, best_rate)

\* the loop run from the last rate of the grid to the first
rate_fold_from_the_end(rates, maes, start) ==
  LET n == Len(rates)
  IN  rate_loop([i \in 1..n |-> rates[n + 1 - i]], [i \in 1..n |-> maes[n + 1 - i]],
                1, Inf, start)

\* best_mae = float('inf'), then the loop over the grid; start is the rate
\* held before the loop
rate_fold(rates, maes, start) == rate_loop(rates, maes, 1, Inf, start)

\* the error of each dict of params on the rows df
rate_errors(tie, day, df, params) ==
  [i \in 1..Len(params) |->
     mean_absolute_error(SolverCalculator(day, params[i]), tie, df)]

\* the search of the best rate of one regime on the rows df: params[i] is
\* the dict tried for rates[i]; start is the rate kept when no error is
\* below infinity
rate_search(rates, tie, day, df, params, start) ==
  rate_fold(rates, rate_errors(tie, day, df, params), start)

(***************************************************************************)
(* solver_v5.py: both thresholds and both rates searched on grids.         *)
(***************************************************************************)
\* the pairs (anomaly_thresh, bug_thresh) in the order of the nested loops,
\* in dollars
RECURSIVE v5_threshold_pairs(_, _)
v5_threshold_pairs(anomaly_threshold_search, i) ==
  IF i > Len(anomaly_threshold_search) THEN <<>>
  ELSE LET anomaly_thresh == anomaly_threshold_search[i]
           bug_threshold_search == arange(anomaly_thresh + 200, 2801, 200)
       IN  [j \in 1..Len(bug_threshold_search) |->
              <<anomaly_thresh, bug_threshold_search[j]>>]
             \o v5_threshold_pairs(anomaly_threshold_search, i + 1)

\* the body of the inner loop for one pair: the two rate searches and the
\* error of the whole day
v5_try(tie, day, df_day, anomaly_thresh, bug_thresh) ==
  LET at == Cents(anomaly_thresh)
      bt == Cents(bug_thresh)
      df_anomalies == SelectSeq(df_day, LAMBDA r :
                        r.total_receipts_amount > at /\ r.total_receipts_amount <= bt)
      df_bugs == SelectSeq(df_day, LAMBDA r : r.total_receipts_amount > bt)
      best_anomaly_rate ==
        IF df_anomalies # <<>>
        THEN rate_search(anomaly_rate_search, tie, day, df_anomalies,
                         [i \in 1..Len(anomaly_rate_search) |->
                            DayParams(at, anomaly_rate_search[i], bt, Absent)], 0)
        ELSE 0
      best_bug_rate ==
        IF df_bugs # <<>>
        THEN rate_search(bug_rate_search, tie, day, df_bugs,
                         [i \in 1..Len(bug_rate_search) |->
                            DayParams(at, Absent, bt, bug_rate_search[i])], 0)
        ELSE 0
      current_params == DayParams(at, best_anomaly_rate, bt, best_bug_rate)
  IN  [params |-> current_params,
       total_mae |-> mean_absolute_error(SolverCalculator(day, current_params),
                                         tie, df_day)]

RECURSIVE v5_loop(_, _, _, _, _, _)
v5_loop(tie, day, df_day, pairs, i, best) ==
  IF i > Len(pairs) THEN best.params
  ELSE LET try == v5_try(tie, day, df_day, pairs[i][1], pairs[i][2])
       IN  IF try.total_mae < best.total_mae
           THEN v5_loop(tie, day, df_day, pairs, i + 1, try)
           ELSE v5_loop(tie, day, df_day, pairs, i + 1, best)

\* best_day_params of solver_v5 for a day that has cases
v5_best_day_params(tie, day, df_day) ==
  v5_loop(tie, day, df_day,
          v5_threshold_pairs(arange(800, 2401, 200), 1), 1,
          [params |-> <<>>, total_mae |-> Inf])

(***************************************************************************)
(* solver_v6.py: the bug threshold fixed, the anomaly threshold searched.  *)
(***************************************************************************)
BUG_THRESHOLD == 2500
BUG_RATE == 5

\* best_day_params before the search: -1 for 'no anomaly found yet'
v6_initial_params == DayParams(Cents(0 - 1), 0 - 1000, Cents(BUG_THRESHOLD), BUG_RATE)

RECURSIVE v6_loop(_, _, _, _, _, _)
v6_loop(tie, day, df_day, anomaly_threshold_search, i, best) ==
  IF i > Len(anomaly_threshold_search) THEN best
  ELSE
    LET at == Cents(anomaly_threshold_search[i])
        df_non_bugs == SelectSeq(df_day, LAMBDA r :
                         r.total_receipts_amount <= Cents(BUG_THRESHOLD))
        df_anomalies == SelectSeq(df_non_bugs, LAMBDA r :
                          r.total_receipts_amount > at)
        best_anomaly_rate ==
          rate_search(anomaly_rate_search, tie, day, df_anomalies,
                      [j \in 1..Len(anomaly_rate_search) |->
                         DayParams(at, anomaly_rate_search[j], Absent, Absent)], 0)
        temp_params == DayParams(at, best_anomaly_rate, Cents(BUG_THRESHOLD), BUG_RATE)
        total_mae == mean_absolute_error(SolverCalculator(day, temp_params), tie, df_day)
    IN  IF df_anomalies = <<>>
        THEN v6_loop(tie, day, df_day, anomaly_threshold_search, i + 1, best)
        ELSE IF total_mae < best.total_mae
        THEN v6_loop(tie, day, df_day, anomaly_threshold_search, i + 1,
                     [params |-> temp_params, total_mae |-> total_mae,
                      constructed |-> TRUE])
        ELSE v6_loop(tie, day, df_day, anomaly_threshold_search, i + 1,
                     [best EXCEPT !.constructed = TRUE])

\* best_day_params of solver_v6 for a day that has cases, and whether a
\* calculator was constructed on the way
v6_best_day_params(tie, day, df_day) ==
  v6_loop(tie, day, df_day, arange(1000, BUG_THRESHOLD, 200), 1,
          [params |-> v6_initial_params, total_mae |-> Inf, constructed |-> FALSE])

(***************************************************************************)
(* solver_v7.py: the thresholds taken from the data of the day.            *)
(***************************************************************************)
\* the index of the first smallest element of a non-empty sequence
first_smallest(s) ==
  CHOOSE i \in 1..Len(s) :
    /\ \A j \in 1..Len(s) : s[i] <= s[j]
    /\ \A j \in 1..(i - 1) : s[i] < s[j]

\* the index of the first largest element of a non-empty sequence
first_largest(s) ==
  CHOOSE i \in 1..Len(s) :
    /\ \A j \in 1..Len(s) : s[j] <= s[i]
    /\ \A j \in 1..(i - 1) : s[j] < s[i]

\* sort_values(ascending=False) of the receipts column
RECURSIVE sort_descending(_)
sort_descending(s) ==
  IF s = <<>> THEN <<>>
  ELSE LET i == first_largest(s)
       IN  <<s[i]>> \o sort_descending(SubSeq(s, 1, i - 1) \o SubSeq(s, i + 1, Len(s)))

\* Series.quantile(0.9) of a column given in descending order: linear
\* interpolation at position 0.9 * (n - 1) of the ascending order
quantile_09(descending) ==
  LET n == Len(descending)
      ascending == [i \in 1..n |-> descending[n + 1 - i]]
      lower == (9 * (n - 1)) \div 10
      tenths == (9 * (n - 1)) % 10
  IN  IF tenths = 0 THEN ascending[lower + 1]
      ELSE ascending[lower + 1]
             + (tenths * (ascending[lower + 2] - ascending[lower + 1])) \div 10

\* 'Ensure thresholds are not equal and have a reasonable gap': the
\* anomaly threshold after the test of lines 112-113
v7_ensure_gap(anomaly_threshold, bug_threshold) ==
  IF anomaly_threshold >= bug_threshold
  THEN (bug_threshold * 9) \div 10
  ELSE anomaly_threshold

\* bug_threshold and anomaly_threshold of a day that has cases
v7_thresholds(df_day) ==
  LET df_day_sorted ==
        sort_descending([i \in 1..Len(df_day) |-> df_day[i].total_receipts_amount])
      top_5_percent_index == (Len(df_day_sorted) * 5) \div 100
      top_cases == SubSeq(df_day_sorted, 1, top_5_percent_index)
      bug_threshold ==
        IF top_5_percent_index < 2
        THEN (IF Len(df_day_sorted) > 1 THEN df_day_sorted[1] ELSE Cents(3000))
        ELSE top_cases[1]
      anomaly_threshold ==
        IF top_5_percent_index < 2
        THEN (IF Len(df_day_sorted) > 1 THEN df_day_sorted[2] ELSE Cents(2800))
        ELSE quantile_09(top_cases)
  IN  [bug_threshold |-> bug_threshold,
       anomaly_threshold |-> v7_ensure_gap(anomaly_threshold, bug_threshold)]

\* the rows of the day between the two thresholds
v7_df_anomalies(df_day, t) ==
  SelectSeq(df_day, LAMBDA r :
    /\ r.total_receipts_amount > t.anomaly_threshold
    /\ r.total_receipts_amount <= t.bug_threshold)

\* the rows of the day above the bug threshold
v7_df_bugs(df_day, t) ==
  SelectSeq(df_day, LAMBDA r : r.total_receipts_amount > t.bug_threshold)

\* params = {day: {'anomaly_rate': rate}} for each rate of the grid
v7_rate_params ==
  [i \in 1..Len(anomaly_rate_search) |->
     DayParams(Absent, anomaly_rate_search[i], Absent, Absent)]

\* final_params[day] of solver_v7 for a day that has cases, and whether a
\* calculator was constructed on the way
v7_day_params(tie, day, df_day) ==
  LET t == v7_thresholds(df_day)
      df_anomalies == v7_df_anomalies(df_day, t)
      best_bug_rate == 5
      best_anomaly_rate ==
        IF df_anomalies # <<>>
        THEN rate_search(anomaly_rate_search, tie, day, df_anomalies,
                         v7_rate_params, 450)
        ELSE 450
  IN  [params |-> DayParams(t.anomaly_threshold, best_anomaly_rate,
                            t.bug_threshold, best_bug_rate),
       constructed |-> df_anomalies # <<>>]

(***************************************************************************)
(* solver_v2.py and solver_v3.py: the outlier rate of each day searched.   *)
(***************************************************************************)
\* the grid [x / 100 for x in range(0, 101, 1)], in thousandths
outlier_rate_search == [i \in 1..101 |-> 10 * (i - 1)]

\* current_rules as run_solver writes it: with the rate field in solver_v2,
\* without it in solver_v3
current_rules(version) ==
  IF version = "v2" THEN with_outlier_rate(ReferenceRules, 450) ELSE ReferenceRules

\* the rate written in every rule of the table
set_rate_every_day(rules, day, rate) == with_outlier_rate(rules, rate)

\* temp_rules = current_rules.copy(); temp_rules[day]['outlier_receipt_rate']
\* = rate: the copy is shallow, the rule written is the one of current_rules
set_rate(rules, day, rate) ==
  [rules EXCEPT ![day] = ("outlier_receipt_rate" :> rate) @@ rules[day]]

\* ReimbursementCalculator(rules=...) of the script
two_regime_calculator(version, rules) ==
  IF version = "v2"
  THEN [kind |-> "v2", state |-> "ready", long_trip_model |-> files[model_path],
        rules |-> rules]
  ELSE [kind |-> "v3", state |-> "ready", long_trip_model |-> files[model_path],
        rules |-> rules, outlier_thresholds |-> v3_outlier_thresholds]

\* calc.calculate on one row, in 1/100000 dollar
two_regime_predicted(calculator, tie, r) ==
  IF calculator.kind = "v2"
  THEN v2_calculate(calculator, tie, 10 * r.trip_duration_days,
                    10 * r.miles_traveled, r.total_receipts_amount).result
  ELSE v3_calculate(calculator, tie, 10 * r.trip_duration_days,
                    10 * r.miles_traveled, r.total_receipts_amount).result

\* is_outlier(row) of run_solver
row_is_outlier(version, r) ==
  IF version = "v2"
  THEN v2_is_outlier(r.trip_duration_days, r.total_receipts_amount)
  ELSE r.total_receipts_amount > Get(v3_outlier_thresholds, r.trip_duration_days, Inf)

\* df_full with the columns is_outlier and error (actual_output -
\* expected_output, in cents) of the first calculator
with_columns(version, tie, df_full) ==
  LET calculator == two_regime_calculator(version, with_outlier_rate(ReferenceRules, 450))
  IN  [i \in 1..Len(df_full) |->
         [row |-> df_full[i],
          is_outlier |-> row_is_outlier(version, df_full[i]),
          error |-> (two_regime_predicted(calculator, tie, df_full[i])
                       - Literal(df_full[i].expected_output)) \div 1000]]

abs(x) == IF x < 0 THEN 0 - x ELSE x

\* the rows the rate of the day is searched on: the outliers of the day,
\* in solver_v2 those with an error above one dollar
outliers_day(version, df, day) ==
  LET picked == SelectSeq(df, LAMBDA c :
                  /\ c.is_outlier
                  /\ c.row.trip_duration_days = day
                  /\ version = "v2" => abs(c.error) > 100)
  IN  [i \in 1..Len(picked) |-> picked[i].row]

RECURSIVE two_regime_sum(_, _, _, _)
two_regime_sum(calculator, tie, df, i) ==
  IF i > Len(df) THEN 0
  ELSE abs(two_regime_predicted(calculator, tie, df[i])
             - Literal(df[i].expected_output)) \div 1000
         + two_regime_sum(calculator, tie, df, i + 1)

\* the error of each rate of the grid on the rows df (the mean times the
\* number of rows), the rate written into the rule of the day
two_regime_errors(version, tie, rules, day, df) ==
  [i \in 1..Len(outlier_rate_search) |->
     two_regime_sum(two_regime_calculator(version,
                      set_rate(rules, day, outlier_rate_search[i])), tie, df, 1)]

\* current_rules after the loop over the grid: every rate was written in turn
rules_after_search(rules, day) ==
  set_rate(rules, day, outlier_rate_search[Len(outlier_rate_search)])

(***************************************************************************)
(* A run of one of the scripts on a dataset.                               *)
(***************************************************************************)
\* the rows of the short datasets: receipts between the grid thresholds,
\* above 2500, negative, a case of another day, and a row that is not numeric
SolverRows ==
  { Row(1, 100, 150000, 83500), Row(1, 100, 260000, 9800),
    Row(1, 100, 0 - 1000, 7750), Row(3, 50, 90000, 72500),
    Row(1, 100, NonNumeric, 10000) }

\* a dataset of n cases of one day: two with high receipts, the others low
LongRun(n, high1, high2) ==
  [i \in 1..n |->
     IF i = 1 THEN Row(1, 100, high1, 50000)
     ELSE IF i = 2 THEN Row(1, 100, high2, 50000)
     ELSE Row(1, 100, 10000, 16000)]

\* the datasets: every short one, and long ones whose top 5 percent are
\* two and three cases
Datasets ==
  UNION { [1..n -> SolverRows] : n \in 0..MaxRows }
    \cup { LongRun(n, 200000, h) : n \in {40, 60}, h \in {150000, 200000} }

\* the rows of the datasets of solver_v2 and solver_v3: outliers of two
\* days, one of them met by the rate 0.45, one with two rates equally
\* near, a case below the thresholds and a row that is not numeric
TwoRegimeRows ==
  { Row(1, 100, 260000, 9800), Row(1, 100, 260000, 85200),
    Row(1, 100, 260000, 125500), Row(3, 50, 220000, 120000),
    Row(1, 100, 150000, 83500), Row(1, 100, NonNumeric, 10000) }

TwoRegimeDatasets == UNION { [1..n -> TwoRegimeRows] : n \in 0..MaxRows }

InitSolver ==
  /\ fp \in 0..1
  /\ call = NoCall
  /\ seen = <<>>
  /\ log = <<>> /\ threads = <<>> /\ main = NotStarted
  /\ calc = Unbuilt("v7")
  /\ files \in V7Files
  /\ \/ \E version \in {"v5", "v6", "v7"}, data \in Datasets :
          solver = [version |-> version, state |-> "running", data |-> data,
                    day |-> 1, final_params |-> <<>>]
     \/ \E version \in {"v2", "v3"}, data \in TwoRegimeDatasets :
          solver = [version |-> version, state |-> "starting", data |-> data,
                    day |-> 1, df_full |-> <<>>,
                    current_rules |-> current_rules(version),
                    final_outlier_rates |-> <<>>]

\* the cases of the day the loop is at
df_day == df_of_day(dropna(solver.data), solver.day)

\* the day's entry is stored, or the run ends in the constructor's error
Stored(day_params, constructed) ==
  /\ solver' =
       IF constructed /\ files[model_path] = Missing
       THEN [solver EXCEPT !.state = "FileNotFoundError"]
       ELSE [solver EXCEPT !.final_params = (solver.day :> day_params) @@ @,
                           !.day = @ + 1]
  /\ UNCHANGED <<files, fp, calc, call, seen, log, threads, main>>

\* 'if df_day.empty: continue'
SkipDay ==
  /\ solver.version \in {"v5", "v6", "v7"} /\ solver.state = "running"
  /\ solver.day <= 7
  /\ df_day = <<>>
  /\ solver' = [solver EXCEPT !.day = @ + 1]
  /\ UNCHANGED <<files, fp, calc, call, seen, log, threads, main>>

\* one turn of the loop over the days of solver_v5
OptimizeDayV5 ==
  /\ solver.version = "v5" /\ solver.state = "running"
  /\ solver.day <= 7
  /\ df_day # <<>>
  /\ Stored(v5_best_day_params(fp, solver.day, df_day), TRUE)

\* one turn of the loop over the days of solver_v6
OptimizeDayV6 ==
  /\ solver.version = "v6" /\ solver.state = "running"
  /\ solver.day <= 7
  /\ df_day # <<>>
  /\ LET best == v6_best_day_params(fp, solver.day, df_day)
     IN  Stored(best.params, best.constructed)

\* one turn of the loop over the days of solver_v7
OptimizeDayV7 ==
  /\ solver.version = "v7" /\ solver.state = "running"
  /\ solver.day <= 7
  /\ df_day # <<>>
  /\ LET found == v7_day_params(fp, solver.day, df_day)
     IN  Stored(found.params, found.constructed)

\* solver_v2 and solver_v3 before the loop over the days: the first
\* calculator is constructed and the columns is_outlier and error are set
FirstCalculator ==
  /\ solver.version \in {"v2", "v3"} /\ solver.state = "starting"
  /\ solver' =
       IF files[model_path] = Missing
       THEN [solver EXCEPT !.state = "FileNotFoundError"]
       ELSE [solver EXCEPT !.state = "running",
                           !.df_full = with_columns(solver.version, fp,
                                                    dropna(solver.data))]
  /\ UNCHANGED <<files, fp, calc, call, seen, log, threads, main>>

\* one turn of the loop over the days of solver_v2 and solver_v3
OptimizeDayTwoRegimes ==
  /\ solver.version \in {"v2", "v3"} /\ solver.state = "running"
  /\ solver.day <= 7
  /\ LET day == solver.day
         df == outliers_day(solver.version, solver.df_full, day)
         kept == IF solver.version = "v2"
                 THEN solver.current_rules[day].outlier_receipt_rate
                 ELSE 450
         best_rate ==
           rate_fold(outlier_rate_search,
                     two_regime_errors(solver.version, fp, solver.current_rules,
                                       day, df), 0)
     IN  solver' =
           IF df = <<>>
           THEN [solver EXCEPT !.final_outlier_rates = (day :> kept) @@ @,
                               !.day = @ + 1]
           ELSE [solver EXCEPT !.final_outlier_rates = (day :> best_rate) @@ @,
                               !.current_rules = rules_after_search(@, day),
                               !.day = @ + 1]
  /\ UNCHANGED <<files, fp, calc, call, seen, log, threads, main>>

\* after the loop: print(final_params)
PrintFinal ==
  /\ solver.version # "none" /\ solver.state = "running"
  /\ solver.day = 8
  /\ solver' = [solver EXCEPT !.state = "done"]
  /\ UNCHANGED <<files, fp, calc, call, seen, log, threads, main>>

NextSolver ==
  \/ FirstCalculator
  \/ OptimizeDayTwoRegimes
  \/ SkipDay
  \/ OptimizeDayV5
  \/ OptimizeDayV6
  \/ OptimizeDayV7
  \/ PrintFinal

SpecSolver == InitSolver /\ [][NextSolver]_vars

(***************************************************************************)
(* The calculators of the solver scripts, called one call at a time.       *)
(***************************************************************************)
\* the rules handed to the two-regime constructors: the table of run_solver
\* with and without the rate field, and a table of one day
TwoRegimeRules ==
  {ReferenceRules, with_outlier_rate(ReferenceRules, 450),
   with_outlier_rate(ReferenceRules, 300), SingleDayRules}

OutlierThresholdTables == {<<>>, v3_outlier_thresholds}

\* the arguments tried on the two-regime calculators: durations with and
\* without rule, 8 and 14 among them, and receipts around the thresholds
TwoRegimeDayArgs == V7DayArgs
TwoRegimeMilesArgs == {0, 930, 3000}
TwoRegimeReceiptArgs ==
  {0, 2, 142, 999, 1000, 150000, 300000}
    \cup UNION { Around(b) : b \in {100000, 190000, 200000, 210000} }

InitCalculators ==
  /\ fp \in 0..3
  /\ call = NoCall
  /\ seen = <<>>
  /\ log = <<>> /\ threads = <<>> /\ solver = NoRun /\ main = NotStarted
  /\ files \in V7Files
  /\ calc \in {Unbuilt("v2"), Unbuilt("v3"), Unbuilt("v7")}

\* solver_v2.py __init__(rules, model_path): joblib.load, then the rules
ConstructV2 ==
  /\ calc = Unbuilt("v2")
  /\ \E rules \in TwoRegimeRules :
       calc' = IF files[model_path] = Missing
               THEN [kind |-> "v2", state |-> "FileNotFoundError"]
               ELSE [kind |-> "v2", state |-> "ready",
                     long_trip_model |-> files[model_path], rules |-> rules]
  /\ UNCHANGED <<files, fp, call, seen, log, threads, solver, main>>

\* solver_v3.py __init__(rules, outlier_thresholds)
ConstructV3 ==
  /\ calc = Unbuilt("v3")
  /\ \E rules \in TwoRegimeRules, outlier_thresholds \in OutlierThresholdTables :
       calc' = IF files[model_path] = Missing
               THEN [kind |-> "v3", state |-> "FileNotFoundError"]
               ELSE [kind |-> "v3", state |-> "ready",
                     long_trip_model |-> files[model_path], rules |-> rules,
                     outlier_thresholds |-> outlier_thresholds]
  /\ UNCHANGED <<files, fp, call, seen, log, threads, solver, main>>

\* one call of the solver_v2 calculate
CalculateV2 ==
  /\ calc.kind = "v2" /\ calc.state = "ready"
  /\ call = NoCall
  /\ \E d \in TwoRegimeDayArgs, m \in TwoRegimeMilesArgs, r \in TwoRegimeReceiptArgs :
       call' = v2_calculate(calc, fp, d, m, r)
  /\ UNCHANGED <<files, fp, calc, seen, log, threads, solver, main>>

\* one call of the solver_v3 calculate
CalculateV3 ==
  /\ calc.kind = "v3" /\ calc.state = "ready"
  /\ call = NoCall
  /\ \E d \in TwoRegimeDayArgs, m \in TwoRegimeMilesArgs, r \in TwoRegimeReceiptArgs :
       call' = v3_calculate(calc, fp, d, m, r)
  /\ UNCHANGED <<files, fp, calc, seen, log, threads, solver, main>>

NextCalculators ==
  \/ ConstructV2
  \/ ConstructV3
  \/ ConstructV7
  \/ CalculateV2
  \/ CalculateV3
  \/ CalculateV7
  \/ Return

SpecCalculators == InitCalculators /\ [][NextCalculators]_vars

(***************************************************************************)
(* solution.py run as a script: the block under __name__ == '__main__'.    *)
(***************************************************************************)
\* the most command-line arguments tried
MaxArgs == 4

\* the texts given as arguments: 4 (days), 69.9 (miles), 2321.49 (receipts),
\* each read in the unit of its position, and a text that is not a number
ArgTexts == {40, 699, 232149, NonNumeric}

\* sys.argv[1:]
Argvs == UNION { [1..n -> ArgTexts] : n \in 0..MaxArgs }

\* the test cases of the run without arguments
test_cases == << <<40, 690, 232149>>, <<30, 930, 142>>, <<80, 8620, 181785>> >>

\* the try block with the arguments parsed before the calculator is built
try_statements_parse_first == <<"parse", "construct", "calculate", "print">>

\* the statements of the try block of the run with arguments, in their order
try_statements == <<"construct", "parse", "calculate", "print">>

\* the messages written to sys.stderr
Usage == "Usage: python solution.py <trip_duration_days> <miles_traveled> <total_receipts_amount>"
InvalidInput == "Invalid input types."
ModelNotFound == "Error: Model file not found."

\* the path that the first failing joblib.load names
first_missing(f) == IF f[model_path] = Missing THEN model_path ELSE outlier_model_path

\* sys.exit(1) after the lines written to sys.stderr
exit_1(m, lines) == [m EXCEPT !.pc = "exited", !.stderr = lines, !.status = 1]

\* the end of the script is reached
exit_0(m) == [m EXCEPT !.pc = "exited", !.status = 0]

\* the statement of the try block that runs next
statement == IF main.pc = "try" THEN try_statements[main.at] ELSE "none"

\* the statement after this one, or the end of the script
next_statement(m) ==
  IF m.at = Len(try_statements) THEN exit_0(m) ELSE [m EXCEPT !.at = m.at + 1]

InitMain ==
  /\ fp \in 0..3
  /\ files \in [ModelPaths -> Artifacts \cup {Missing}]
  /\ calc = Unbuilt("solution")
  /\ call = NoCall
  /\ seen = <<>>
  /\ log = <<>> /\ threads = <<>> /\ solver = NoRun
  /\ \E argv \in Argvs :
       main = [pc |-> "start", at |-> 0, argv |-> argv, parsed |-> <<>>,
               stdout |-> <<>>, stderr |-> <<>>, status |-> 0 - 1]

\* the tests of len(sys.argv): the usage message and exit 1, or a try block
MainStart ==
  /\ main.pc = "start"
  /\ main' = IF Len(main.argv) = 0 THEN [main EXCEPT !.pc = "tests", !.at = 0]
             ELSE IF Len(main.argv) # 3 THEN exit_1(main, <<Usage>>)
             ELSE [main EXCEPT !.pc = "try", !.at = 1]
  /\ UNCHANGED <<files, fp, calc, call, seen, log, threads, solver>>

\* calculator = ReimbursementCalculator(), and the FileNotFoundError handler
MainConstruct ==
  /\ \/ statement = "construct"
     \/ main.pc = "tests" /\ main.at = 0
  /\ calc = Unbuilt("solution")
  /\ IF load_fails(files)
     THEN /\ calc' = [kind |-> "solution", state |-> "FileNotFoundError"]
          /\ main' = exit_1(main, <<ModelNotFound, first_missing(files)>>)
     ELSE /\ calc' = Constructed(files)
          /\ main' = IF main.pc = "tests" THEN [main EXCEPT !.at = 1]
                     ELSE next_statement(main)
  /\ UNCHANGED <<files, fp, call, seen, log, threads, solver>>

\* int(float(sys.argv[1])), int(float(sys.argv[2])), float(sys.argv[3]), and
\* the ValueError handler
MainParse ==
  /\ statement = "parse"
  /\ main' = IF \E i \in 1..3 : ~IsNumeric(main.argv[i])
             THEN exit_1(main, <<InvalidInput>>)
             ELSE next_statement(
                    [main EXCEPT !.parsed =
                       <<10 * int(float(main.argv[1])), 10 * int(float(main.argv[2])),
                         float(main.argv[3])>>])
  /\ UNCHANGED <<files, fp, calc, call, seen, log, threads, solver>>

\* result = calculator.calculate(...) on the parsed arguments
MainCalculate ==
  /\ statement = "calculate"
  /\ call' = calculate(calc, fp, main.parsed[1], main.parsed[2], main.parsed[3])
  /\ calc' = self_after(calc, call')
  /\ main' = next_statement(main)
  /\ UNCHANGED <<files, fp, seen, log, threads, solver>>

\* print(result)
MainPrint ==
  /\ statement = "print"
  /\ main' = next_statement([main EXCEPT !.stdout = Append(@, call.result)])
  /\ UNCHANGED <<files, fp, calc, call, seen, log, threads, solver>>

\* one turn of the loop over test_cases: the call and the lines printed
MainTestCase ==
  /\ main.pc = "tests" /\ main.at \in DOMAIN test_cases
  /\ LET case == test_cases[main.at]
     IN  call' = calculate(calc, fp, case[1], case[2], case[3])
  /\ calc' = self_after(calc, call')
  /\ main' = LET printed == [main EXCEPT !.stdout = Append(@, call'.result)]
             IN  IF main.at = Len(test_cases) THEN exit_0(printed)
                 ELSE [printed EXCEPT !.at = main.at + 1]
  /\ UNCHANGED <<files, fp, seen, log, threads, solver>>

NextMain ==
  \/ MainStart
  \/ MainConstruct
  \/ MainParse
  \/ MainCalculate
  \/ MainPrint
  \/ MainTestCase

SpecMain == InitMain /\ [][NextMain]_vars

(***************************************************************************)
(* Properties of solution.py calculate.                                    *)
(***************************************************************************)
\* a call of solution.py calculate that returned an amount
Served == call.fn = "solution" /\ call.path # "ValueError"

\* the coerced arguments of the call
Triple == <<call.day, call.miles, call.receipts>>

\* the curated triples and their recorded amounts, in cents
Recorded ==
  <<4, 69, 232149>> :> 32200 @@ <<2, 18, 250346>> :> 120695 @@
  <<5, 196, 122849>> :> 51123 @@ <<1, 1082, 180949>> :> 44694 @@
  <<5, 516, 187849>> :> 66985

\* C1: a call whose coerced triple is one of the five curated triples returns
\* the recorded amount (322.00, 1206.95, 511.23, 446.94, 669.85), whatever
\* models were loaded, and it evaluated neither the rule table, nor the
\* params, nor a model
C1_OverridePrecedence ==
  Served /\ Triple \in DOMAIN Recorded =>
    /\ call.result = Literal(Recorded[Triple])
    /\ call.path = "override"
    /\ call.used = {"override"}
    /\ call.invoked = <<>>

C1_Witness ==
  /\ Served
  /\ Triple = <<2, 18, 250346>>
  /\ call.result = Literal(120695)
  /\ calc.long_trip_model # calc.outlier_model

\* C2: every call takes exactly one of the four paths, chosen by the
\* override table and then the duration; a 1..7 day call invokes no model,
\* an 8..14 day call applies no rule, no params and no penalty
C2_OnePath ==
  Served =>
    LET ov == Triple \in DOMAIN Recorded
    IN  /\ call.path \in {"override", "rules", "model", "zero"}
        /\ call.path = "override" <=> ov
        /\ call.path = "rules" <=> ~ov /\ call.day \in 1..7
        /\ call.path = "model" <=> ~ov /\ call.day \in 8..14
        /\ call.path = "zero" <=> ~ov /\ call.day \notin 1..14
        /\ call.path = "rules" => {"rules", "params"} \subseteq call.used
        /\ call.path = "model" => Len(call.invoked) = 1
        /\ call.path \in {"override", "zero"} =>
             call.invoked = <<>> /\ call.used \subseteq {"override"}
        /\ call.day \in 1..7 => call.invoked = <<>>
        /\ call.day \in 8..14 => call.used \cap {"rules", "params", "penalty"} = {}

C2_Witness ==
  /\ Served
  /\ call.day = 8
  /\ call.path = "model"
  /\ Len(call.invoked) = 1
  /\ call.used \cap {"rules", "params", "penalty"} = {}

\* C3: a call with numeric arguments and a duration outside 1..14 returns 0
\* and raises nothing; calculate(0, 100, 50.00) and calculate(15, 100, 50.00)
\* return 0
C3_UndefinedDomain ==
  /\ call.fn = "solution" /\ (\A i \in 1..3 : IsNumeric(call.args[i]))
       /\ int(call.args[1]) \notin 1..14
       => call.path = "zero" /\ call.result = 0
  /\ call.fn = "solution" /\ call.args \in {<<0, 1000, 5000>>, <<150, 1000, 5000>>}
       => call.path = "zero" /\ call.result = 0

C3_Witness ==
  /\ call.fn = "solution"
  /\ call.args = <<150, 1000, 5000>>
  /\ call.result = 0

(***************************************************************************)
(* Properties of the rule table (solution.py and solver_v7.py).            *)
(***************************************************************************)
\* a call of either calculate that evaluated the rule of its duration
Ruled == call.fn \in {"solution", "v7"} /\ call.path = "rules"

\* C4: the mileage term of a 1..7 day call is threshold*rate1 +
\* (miles - threshold)*rate2 when miles > threshold and miles*rate1
\* otherwise; miles equal to the threshold take the first tier
C4_MileageTerm ==
  Ruled =>
    LET rule == calc.rules[call.day]
        thr == rule.mileage_threshold
    IN  /\ call.day \in 1..7
        /\ call.mileage_reimbursement =
             IF call.miles > thr
             THEN (thr * rule.mileage_rate1 + (call.miles - thr) * rule.mileage_rate2) * 100
             ELSE call.miles * rule.mileage_rate1 * 100

C4_Witness ==
  /\ Ruled /\ call.fn = "solution"
  /\ call.day = 7 /\ call.miles = 126
  /\ call.mileage_reimbursement = 8050000

\* C5: the mileage term is continuous at the threshold: there the first tier
\* and the second tier give the same value, and one more mile raises the
\* term by exactly rate2
C5_TierContinuity ==
  Ruled =>
    LET rule == calc.rules[call.day]
        thr == rule.mileage_threshold
    IN  /\ call.miles = thr =>
             /\ call.mileage_reimbursement = first_tier(rule, thr)
             /\ first_tier(rule, thr) = second_tier(rule, thr)
        /\ call.miles = thr + 1 =>
             call.mileage_reimbursement - first_tier(rule, thr)
               = rule.mileage_rate2 * 100

C5_Witness ==
  /\ Ruled /\ call.fn = "solution"
  /\ call.day = 3 /\ call.miles = 101
  /\ call.mileage_reimbursement = 7000000 + 25000

\* the amounts returned for the same duration and receipts and fewer miles
FewerMiles ==
  { m \in MilesArgs : IsNumeric(m) /\ int(m) < call.miles }

AmountWith(m) == calculate(calc, fp, call.args[1], m, call.args[3]).result

\* C6 as stated: for a 1..7 day call with miles up to the threshold, every
\* call with the same duration and receipts and fewer miles returns no more
C6_MonotoneBelowThreshold ==
  Served /\ call.day \in 1..7
         /\ call.miles <= calc.rules[call.day].mileage_threshold
    => \A m \in FewerMiles : AmountWith(m) <= call.result

\* C6 amended: the same, when neither of the two triples is a curated
\* override entry
C6_MonotoneBelowThresholdNoOverride ==
  Served /\ call.day \in 1..7
         /\ call.miles <= calc.rules[call.day].mileage_threshold
         /\ Triple \notin DOMAIN Recorded
    => \A m \in FewerMiles :
         <<call.day, int(m), call.receipts>> \notin DOMAIN Recorded
           => AmountWith(m) <= call.result

C6_Witness ==
  /\ Served /\ call.path = "rules"
  /\ Triple = <<4, 70, 232149>>
  /\ 680 \in FewerMiles
  /\ AmountWith(680) < call.result

\* C7: in the normal regime with receipts >= 0 the receipt term is
\* min(receipts*receipt_rate, receipt_cap): never above the cap, and the cap
\* itself once receipts*receipt_rate reaches it
C7_ReceiptCap ==
  Ruled /\ ~call.is_outlier /\ ~call.is_anomaly /\ ~call.is_bug
        /\ call.receipts >= 0
    => LET rule == calc.rules[call.day]
           product == call.receipts * rule.receipt_rate
           cap == rule.receipt_cap * 100000
       IN  /\ call.receipt_reimbursement <= cap
           /\ product >= cap => call.receipt_reimbursement = cap
           /\ product < cap => call.receipt_reimbursement = product

C7_Witness ==
  /\ Ruled /\ call.fn = "solution"
  /\ call.day = 1 /\ call.receipts = 150000
  /\ ~call.is_outlier
  /\ call.receipt_reimbursement = 110000000

(***************************************************************************)
(* Properties of the regime detector.                                      *)
(***************************************************************************)
\* the params dict of the call's duration, and its thresholds in cents
\* (float('inf') for a key that is absent)
ParamsOfDay == Get(calc.params, call.day, <<>>)
BugThreshold == Get(ParamsOfDay, "bug_threshold", Inf)
AnomalyThreshold == Get(ParamsOfDay, "anomaly_threshold", Inf)
OutlierThreshold == Get(ParamsOfDay, "outlier_threshold", Inf \div 100) * 100

\* the regime flags that are set in the returned call
FlagsSet ==
  {f \in {"is_outlier", "is_anomaly", "is_bug"} : call[f]}

\* C8: every call is in exactly one regime: bug if receipts > bug_threshold,
\* else anomaly if receipts > anomaly_threshold, else normal; the comparisons
\* are strict and is_bug and is_anomaly are never both true (solution.py has
\* the one threshold outlier_threshold and no bug regime)
C8_OneRegime ==
  Ruled =>
    /\ Cardinality(FlagsSet) <= 1
    /\ ~(call.is_bug /\ call.is_anomaly)
    /\ call.fn = "v7" =>
         /\ call.is_bug <=> call.receipts > BugThreshold
         /\ call.is_anomaly <=>
              call.receipts <= BugThreshold /\ call.receipts > AnomalyThreshold
         /\ ~call.is_outlier
         /\ call.receipts = BugThreshold => ~call.is_bug
         /\ call.receipts = AnomalyThreshold => ~call.is_anomaly
    /\ call.fn = "solution" =>
         /\ call.is_outlier <=> call.receipts > OutlierThreshold
         /\ ~call.is_bug /\ ~call.is_anomaly

C8_Witness ==
  /\ Ruled /\ call.fn = "v7"
  /\ AnomalyThreshold < BugThreshold
  /\ call.receipts = BugThreshold
  /\ call.is_anomaly /\ ~call.is_bug

\* normal 0, anomaly 1, bug 2
Rank(c) == IF c.is_bug THEN 2 ELSE IF c.is_anomaly THEN 1 ELSE 0

\* a step in which the caller raised the receipts of a solver_v7 call
ReceiptsRaised ==
  /\ call.fn = "v7" /\ call.path = "rules"
  /\ call'.fn = "v7" /\ call'.path = "rules"
  /\ call'.day = call.day
  /\ call'.receipts > call.receipts

\* C9 as stated: with bug_threshold >= anomaly_threshold, raising the
\* receipts never takes the regime back and never takes it from normal to
\* bug without anomaly in between
C9_RegimeOrder ==
  [][ReceiptsRaised /\ BugThreshold >= AnomalyThreshold
       => /\ Rank(call') >= Rank(call)
          /\ ~(Rank(call) = 0 /\ Rank(call') = 2)]_vars

\* C9 amended: with bug_threshold >= anomaly_threshold the regime never goes
\* back, and when a receipts value lies above anomaly_threshold and not
\* above bug_threshold it never goes from normal to bug without anomaly in
\* between
C9_RegimeOrderWithGap ==
  [][ReceiptsRaised /\ BugThreshold >= AnomalyThreshold
       => /\ Rank(call') >= Rank(call)
          /\ BugThreshold > AnomalyThreshold
               => ~(Rank(call) = 0 /\ Rank(call') = 2)]_vars

C9_Witness ==
  /\ call.fn = "v7"
  /\ BugThreshold > AnomalyThreshold
  /\ seen = <<"normal", "anomaly", "bug">>

(***************************************************************************)
(* Properties of the total.                                                *)
(***************************************************************************)
\* the small-receipt penalty that the call subtracted
PenaltyTaken ==
  IF "penalty" \in call.used
  THEN calc.rules[call.day].low_receipt_penalty * 100000
  ELSE 0

\* the total before the small-receipt penalty is the sum of the three terms
TotalIsSum ==
  call.reimbursement + PenaltyTaken
    = call.per_diem + call.mileage_reimbursement + call.receipt_reimbursement

NormalRegime == ~call.is_outlier /\ ~call.is_anomaly /\ ~call.is_bug

\* the branch of the penalty was taken by the call
PenaltyBranch == "penalty" \in call.used

\* the rule the call was computed with
RuleOfCall == calc.rules[call.day]

\* C11: on the rule path of solution.py and of solver_v7 the penalty is
\* subtracted from the total exactly when the regime is normal and
\* 0 < receipts < low_receipt_threshold: then the amount is the sum of the
\* three terms less low_receipt_penalty, otherwise it is the sum; the call
\* (3, 93, 1.42) of solution.py is normal and takes the penalty branch
C11_SmallReceiptPenalty ==
  Ruled =>
    /\ PenaltyBranch <=>
         /\ NormalRegime
         /\ 0 < call.receipts
         /\ call.receipts < Cents(RuleOfCall.low_receipt_threshold)
    /\ call.reimbursement =
         call.per_diem + call.mileage_reimbursement + call.receipt_reimbursement
           - (IF PenaltyBranch THEN Dollars(RuleOfCall.low_receipt_penalty) ELSE 0)
    /\ (call.fn = "solution" /\ Triple = <<3, 93, 142>>) =>
         NormalRegime /\ PenaltyBranch

\* the call (3, 93, 1.42) on a solver_v7 calculator whose table has a penalty
\* of 25 dollars: the regime is normal and the amount is the sum less 25
C11_Witness ==
  /\ Ruled /\ call.fn = "v7" /\ Triple = <<3, 93, 142>>
  /\ NormalRegime /\ PenaltyBranch
  /\ RuleOfCall.low_receipt_penalty = 25
  /\ call.reimbursement + Dollars(25) =
       call.per_diem + call.mileage_reimbursement + call.receipt_reimbursement

(***************************************************************************)
(* The returned amount.                                                    *)
(***************************************************************************)
\* an amount of at most two decimal digits: a whole number of cents
WholeCents(x) == x % 1000 = 0

\* C12: the value returned by calculate on each of the four paths (override,
\* rule table, long-trip model, undefined domain) is a whole number of
\* cents, and it is a cent nearest to the amount the path computed
C12_WholeCents ==
  Served =>
    /\ call.path \in {"override", "rules", "model", "zero"}
    /\ WholeCents(call.result)
    /\ call.result - call.reimbursement \in (0 - 500) .. 500

\* a model prediction with digits after the second decimal was returned
C12_Witness ==
  /\ Served /\ call.path = "model"
  /\ ~WholeCents(call.reimbursement)
  /\ WholeCents(call.result)

(***************************************************************************)
(* The long-trip models.                                                   *)
(***************************************************************************)
\* the one invocation of a call: the model's name and its feature vector
Invocation(name) == << <<name, call.day, call.miles, call.receipts>> >>

\* C13: a call of 8 to 14 days invokes one model once, the outlier model
\* when receipts > 2500 and the general model when receipts <= 2500 (2500
\* itself included), with the coerced (duration, miles, receipts) as the
\* features; the amount is that model's prediction and the other model is
\* not invoked
C13_ModelSelection ==
  Served /\ call.day \in 8..14 =>
    /\ call.path = "model"
    /\ Len(call.invoked) = 1
    /\ IF call.receipts > 250000
       THEN /\ call.invoked = Invocation("outlier_model")
            /\ call.used = {"outlier_model"}
            /\ call.reimbursement =
                 predict(calc.outlier_model, call.day, call.miles, call.receipts)
       ELSE /\ call.invoked = Invocation("long_trip_model")
            /\ call.used = {"long_trip_model"}
            /\ call.reimbursement =
                 predict(calc.long_trip_model, call.day, call.miles, call.receipts)

\* calculate(14.0, 69.9, 2500.00) on an engine with two different models:
\* the general model was invoked on (14, 69, 2500.00)
C13_Witness ==
  /\ Served /\ call.args = <<140, 699, 250000>>
  /\ calc.long_trip_model # calc.outlier_model
  /\ call.invoked = << <<"long_trip_model", 14, 69, 250000>> >>
  /\ call.reimbursement = predict(calc.long_trip_model, 14, 69, 250000)

(***************************************************************************)
(* Construction.                                                           *)
(***************************************************************************)
\* C14: when one of the two model artifacts cannot be loaded, the
\* constructor of solution.py raises and no engine exists: the program is
\* never in a state with a constructed engine or with a call served, a call
\* of a 1..7 day trip included
C14_ConstructionFails ==
  /\ calc.kind = "solution"
  /\ \E path \in ModelPaths : files[path] = Missing
  => /\ calc.state \in {"none", "FileNotFoundError"}
     /\ call = NoCall

\* the general model is there, the outlier model is not, and the
\* constructor has raised
C14_Witness ==
  /\ calc.kind = "solution"
  /\ files[model_path] \in Artifacts
  /\ files[outlier_model_path] = Missing
  /\ calc.state = "FileNotFoundError"

(***************************************************************************)
(* Malformed arguments.                                                    *)
(***************************************************************************)
\* one of the three arguments of the call is negative or not a number
Malformed == \E i \in 1..3 : ~IsNumeric(call.args[i]) \/ call.args[i] < 0

\* C15 as stated: a call of calculate with a negative or non-numeric
\* duration, miles or receipts raises an error and returns no amount
C15_RejectsMalformed ==
  call.fn = "solution" /\ Malformed => call.path = "ValueError"

\* what the code does with such arguments: text that is not a number raises
\* ValueError in int() or float(); a negative duration returns 0, and
\* negative miles or receipts of a 1..14 day trip enter the formula or the
\* model as they are
C15_NegativeComputed ==
  call.fn = "solution" /\ Malformed =>
    IF \E i \in 1..3 : ~IsNumeric(call.args[i]) THEN call.path = "ValueError"
    ELSE IF call.day < 1 THEN call.path = "zero" /\ call.result = 0
    ELSE call.path \in {"rules", "model", "zero"}

\* calculate(3, -5, 100.00) returned 311.50 = 240 + (-5)*0.70 + 100*0.75
C15_Witness ==
  /\ call.fn = "solution" /\ call.args = <<30, 0 - 50, 10000>>
  /\ call.path = "rules"
  /\ call.mileage_reimbursement = 0 - Dollars(3) - 50000
  /\ call.result = Literal(31150)

(***************************************************************************)
(* The reference rule table.                                               *)
(***************************************************************************)
\* C19: the rule table of a constructed solution.py engine has an entry for
\* exactly the durations 1..7, and every entry has mileage_rate2 <
\* mileage_rate1 and receipt_cap > 0
C19_RuleTable ==
  calc.kind = "solution" /\ calc.state = "ready" =>
    /\ DOMAIN calc.rules = 1..7
    /\ \A d \in DOMAIN calc.rules :
         /\ calc.rules[d].mileage_rate2 < calc.rules[d].mileage_rate1
         /\ calc.rules[d].receipt_cap > 0

\* a 5 day call of 76 miles was computed with the entry whose rates are
\* closest (0.50 and 0.45): 75 miles at the first, one at the second
C19_Witness ==
  /\ Ruled /\ call.fn = "solution" /\ call.day = 5 /\ call.miles = 76
  /\ RuleOfCall.mileage_rate1 = 500 /\ RuleOfCall.mileage_rate2 = 450
  /\ call.mileage_reimbursement = MilesTimes(75, 500) + MilesTimes(1, 450)

(***************************************************************************)
(* Calls in a row on one engine.                                           *)
(***************************************************************************)
\* C16: on one constructed engine, after any row of earlier calls, two
\* calls with the same (duration, miles, receipts) take the same path and
\* return the same amount, and every amount is the one a newly
\* constructed engine returns for the arguments
C16_Deterministic ==
  /\ \A i, j \in 1..Len(log) :
       log[i].args = log[j].args =>
         log[i].path = log[j].path /\ log[i].result = log[j].result
  /\ \A i \in 1..Len(log) :
       log[i] = Logged(calculate(Constructed(files), fp,
                                 log[i].args[1], log[i].args[2], log[i].args[3]))

\* calculate(1, -5, 1809.49) twice with a call of the model path between
\* them: both gave the same amount of the outlier regime
C16_Witness ==
  /\ Len(log) = 3
  /\ log[1].args = <<10, 0 - 50, 180949>> /\ log[3].args = log[1].args
  /\ log[2].path = "model"
  /\ log[1].path = "rules" /\ log[3].result = log[1].result

\* the four parts of the engine that a call reads
Configuration(self) ==
  <<self.rules, self.params, self.long_trip_model, self.outlier_model>>

\* C17: no step taken after construction, on any path of calculate, changes
\* the rules table, the params table or either loaded model of the engine
C17_Frame ==
  [][calc.kind = "solution" /\ calc.state = "ready" =>
       Configuration(calc') = Configuration(calc)]_vars

\* three calls on the rule path (outlier regime), the model path and the
\* override path have returned and the engine is as constructed
C17_Witness ==
  /\ Len(log) = 3
  /\ log[1].path = "rules" /\ log[1].args = <<10, 0 - 50, 180949>>
  /\ log[2].path = "model" /\ log[3].path = "override"
  /\ Configuration(calc) = Configuration(Constructed(files))

(***************************************************************************)
(* Calls at the same time on one engine.                                   *)
(***************************************************************************)
\* the call of the frame f run alone on the engine as constructed
Alone(f) == calculate(Constructed(files), fp, f.args[1], f.args[2], f.args[3])

\* C18: in every interleaving of the steps of the running calls, each call
\* holds at each point the values it holds when run alone (the regime flag
\* and the terms, the amount before rounding, the returned amount), and the
\* engine they share stays as constructed
C18_Interleavings ==
  /\ calc = Constructed(files)
  /\ \A t \in DOMAIN threads :
       LET f == threads[t]
       IN  /\ f.pc = "returned" =>
                Alone(f).path # "ValueError" /\ f.result = Alone(f).result
           /\ f.pc = "ValueError" => Alone(f).path = "ValueError"
           /\ f.pc = "round" => f.reimbursement = Alone(f).reimbursement
           /\ f.pc \in {"total", "penalty"} =>
                /\ f.is_outlier = Alone(f).is_outlier
                /\ f.mileage_reimbursement = Alone(f).mileage_reimbursement
                /\ f.receipt_reimbursement = Alone(f).receipt_reimbursement

\* a call of the model path is about to round its amount while a call of the
\* rule path, entered with other arguments, has computed its total
C18_Witness ==
  /\ threads[1].pc = "round" /\ threads[1].model_to_use = calc.outlier_model
  /\ threads[2].pc = "penalty" /\ threads[2].is_outlier
  /\ threads[1].reimbursement # threads[2].reimbursement

(***************************************************************************)
(* The thresholds found by the calibration runs.                           *)
(***************************************************************************)
\* the entries of final_params that hold both thresholds
WithBothThresholds ==
  { d \in DOMAIN solver.final_params :
      {"bug_threshold", "anomaly_threshold"} \subseteq DOMAIN solver.final_params[d] }

\* C20 as stated: every entry that a run of solver_v5, solver_v6 or
\* solver_v7 produces has bug_threshold >= anomaly_threshold, whatever the
\* dataset
C20_ThresholdOrder ==
  solver.version \in {"v5", "v6", "v7"} =>
    \A d \in WithBothThresholds :
      solver.final_params[d].bug_threshold >= solver.final_params[d].anomaly_threshold

\* what the runs give: the order holds in every entry of solver_v5 and
\* solver_v6, and in the entries of solver_v7 whose bug_threshold (the
\* largest receipts of the day) is not negative; 0.9 times a negative
\* bug_threshold lies above it
C20_OrderUnlessNegative ==
  solver.version \in {"v5", "v6", "v7"} =>
    \A d \in WithBothThresholds :
      LET p == solver.final_params[d]
      IN  IF solver.version = "v7" /\ p.bug_threshold < 0
          THEN p.anomaly_threshold > p.bug_threshold
          ELSE p.bug_threshold >= p.anomaly_threshold

\* a run of solver_v7 on two cases of one day with receipts of -10.00 each
\* has stored bug_threshold -10.00 and anomaly_threshold -9.00
C20_Witness ==
  /\ solver.version = "v7" /\ solver.state = "done"
  /\ 1 \in DOMAIN solver.final_params
  /\ solver.final_params[1].bug_threshold = 0 - 1000
  /\ solver.final_params[1].anomaly_threshold = 0 - 900

(***************************************************************************)
(* The override lookup.                                                    *)
(***************************************************************************)
\* the coerced triple is one of the five hardcoded entries
IsEntry(t) ==
  \E i \in DOMAIN Overrides :
    t = <<Overrides[i].day, Overrides[i].miles, Overrides[i].receipts>>

\* C22: calculate returns by the override lookup only when the coerced triple
\* equals one of the five entries in its three components, and then with the
\* amount of that entry; every other triple, the neighbours of the entries
\* by a cent or a mile among them, goes to the rule table for a duration
\* 1..7 and to a model for a duration 8..14
C22_ExactOverride ==
  Served =>
    /\ call.path = "override" <=> IsEntry(Triple)
    /\ call.path = "override" =>
         \E i \in DOMAIN Overrides :
           /\ Triple = <<Overrides[i].day, Overrides[i].miles, Overrides[i].receipts>>
           /\ call.result = Literal(Overrides[i].amount)
    /\ ~IsEntry(Triple) /\ call.day \in 1..7 => call.path = "rules"
    /\ ~IsEntry(Triple) /\ call.day \in 8..14 => call.path = "model"

\* the first entry with the receipts one cent higher is computed by the rules
C22_Witness ==
  /\ Served
  /\ Triple = <<4, 69, 232150>>
  /\ call.path = "rules"
  /\ call.result # Literal(32200)

(***************************************************************************)
(* Fractional durations and miles.                                         *)
(***************************************************************************)
\* an argument in tenths with its fraction cut off toward zero
Truncated(x) == IF x >= 0 THEN x - (x % 10) ELSE 0 - ((0 - x) - ((0 - x) % 10))

\* the call of calculate with the whole numbers int(d) and int(m)
OnWholeNumbers ==
  calculate(calc, fp, Truncated(call.args[1]), Truncated(call.args[2]), call.args[3])

\* C28: calculate(d, m, r) takes the path and returns the amount of
\* calculate(int(d), int(m), r), int being the truncation toward zero, so 69.9
\* miles are treated as 69 miles and can match an override entry
C28_TruncatedArguments ==
  Served =>
    /\ call.day * 10 = Truncated(call.args[1])
    /\ call.miles * 10 = Truncated(call.args[2])
    /\ call.path = OnWholeNumbers.path
    /\ call.result = OnWholeNumbers.result

\* 4 days, 69.9 miles and receipts of 2321.49 match the first override entry
C28_Witness ==
  /\ Served
  /\ call.args = <<40, 699, 232149>>
  /\ call.path = "override"
  /\ call.result = Literal(32200)

(***************************************************************************)
(* The small-receipt penalty of the reference table.                       *)
(***************************************************************************)
\* C29: low_receipt_penalty is 0 for every duration 1..7 of the table of
\* solution.py, so the amount returned when the small-receipt penalty branch
\* is taken is the rounded per_diem + mileage term + receipt term
C29_PenaltyOfZero ==
  /\ calc.kind = "solution" /\ calc.state = "ready" =>
       \A d \in 1..7 : calc.rules[d].low_receipt_penalty = 0
  /\ Served /\ PenaltyBranch =>
       /\ call.reimbursement
            = call.per_diem + call.mileage_reimbursement + call.receipt_reimbursement
       /\ call.result
            = round(call.per_diem + call.mileage_reimbursement
                      + call.receipt_reimbursement, fp)

\* 3 days, 93 miles, 1.42 of receipts: the penalty branch, 240 + 65.10 + 1.07
C29_Witness ==
  /\ Served /\ PenaltyBranch
  /\ Triple = <<3, 93, 142>>
  /\ call.result \in {Literal(30616), Literal(30617)}

(***************************************************************************)
(* A floor of the returned amount.                                         *)
(***************************************************************************)
\* C30: for a duration 1..7, miles >= 0 and receipts >= 0, the override
\* entries among them, the returned amount is at least the per_diem of the
\* duration and above 0, and the receipt term of the outlier regime is not
\* negative
C30_AtLeastPerDiem ==
  Served /\ call.day \in 1..7 /\ call.miles >= 0 /\ call.receipts >= 0 =>
    /\ call.result >= Dollars(ReferenceRules[call.day].per_diem)
    /\ call.result > 0
    /\ call.is_outlier => call.receipt_reimbursement >= 0

\* duration 3 just above its outlier threshold: 2200.01 * 0.48 - 100
C30_Witness ==
  /\ Served /\ call.is_outlier
  /\ Triple = <<3, 0, 220001>>
  /\ call.receipt_reimbursement = 220001 * 480 - Dollars(100)
  /\ call.result >= Dollars(240)

(***************************************************************************)
(* The calculators of the solver scripts against each other.               *)
(***************************************************************************)
\* a returned call of one of the solver calculators
Calibrating == call.fn \in {"v2", "v3", "v7"} /\ call.path # "ValueError"

\* the solver_v3 calculator with the anomaly settings of the solver_v7
\* calculator self: outlier_thresholds[d] = anomaly_threshold of d and
\* outlier_receipt_rate of rule d = anomaly_rate of d
TwoRegimeOf(self) ==
  [kind |-> "v3", state |-> "ready", long_trip_model |-> self.long_trip_model,
   rules |->
     [d \in DOMAIN self.rules |->
        IF "anomaly_rate" \in DOMAIN Get(self.params, d, <<>>)
        THEN ("outlier_receipt_rate" :> self.params[d].anomaly_rate) @@ self.rules[d]
        ELSE self.rules[d]],
   outlier_thresholds |->
     [d \in {e \in DOMAIN self.params : "anomaly_threshold" \in DOMAIN self.params[e]}
        |-> self.params[d].anomaly_threshold]]

\* the same call made on the two-regime calculator
OnTwoRegimes ==
  v3_calculate(TwoRegimeOf(calc), fp, call.args[1], call.args[2], call.args[3])

\* the day's params hold no bug_threshold, and a rate with every threshold
BugRegimeOff ==
  /\ "bug_threshold" \notin DOMAIN ParamsOfDay
  /\ "anomaly_threshold" \in DOMAIN ParamsOfDay => "anomaly_rate" \in DOMAIN ParamsOfDay

\* C21: without bug_threshold the solver_v7 calculate never selects the bug
\* regime and returns what the solver_v3 calculate returns with
\* outlier_thresholds[duration] = anomaly_threshold and outlier_receipt_rate
\* = anomaly_rate, the anomaly regime being the outlier regime; with no
\* params for the duration every receipts value is in the normal regime
C21_DegeneratesToTwoRegimes ==
  call.fn = "v7" /\ call.path # "ValueError" /\ BugRegimeOff =>
    /\ ~call.is_bug
    /\ call.is_anomaly = OnTwoRegimes.is_outlier
    /\ call.path = OnTwoRegimes.path
    /\ call.receipt_reimbursement = OnTwoRegimes.receipt_reimbursement
    /\ call.result = OnTwoRegimes.result
    /\ ParamsOfDay = <<>> => ~call.is_anomaly

\* 1000.01 of receipts above an anomaly_threshold of 1000 with the rate 0.30
C21_Witness ==
  /\ call.fn = "v7" /\ call.path = "rules" /\ BugRegimeOff
  /\ call.day = 3 /\ call.receipts = 100001
  /\ call.is_anomaly
  /\ call.receipt_reimbursement = 100001 * 300
  /\ call.result = OnTwoRegimes.result

\* C27: the calculate of the solver calculators returns 0 for a duration
\* that has no entry in self.rules, 8..14 included, and hands no input to
\* long_trip_model, which the constructor has loaded
C27_ModelNeverInvoked ==
  Calibrating =>
    /\ calc.long_trip_model = files[model_path]
    /\ calc.long_trip_model \in Artifacts
    /\ call.invoked = <<>>
    /\ call.day \notin DOMAIN calc.rules => call.path = "zero" /\ call.result = 0
    /\ call.day \in DOMAIN calc.rules => call.path = "rules"

\* a duration of 14 on the solver_v3 calculator
C27_Witness ==
  /\ call.fn = "v3" /\ call.path = "zero"
  /\ call.day = 14
  /\ calc.long_trip_model \in Artifacts
  /\ call.result = 0

(***************************************************************************)
(* The exits of the script.                                                *)
(***************************************************************************)
\* the script has ended
Exited == main.pc = "exited"

\* a model file is not where joblib.load looks for it
AFileIsMissing == \E path \in ModelPaths : files[path] = Missing

\* one of the three arguments is not the text of a number
AnArgumentIsNonNumeric == \E i \in DOMAIN main.argv : main.argv[i] = NonNumeric

\* C23: the script ends with status 1 and nothing on stdout when the number
\* of arguments is neither 0 nor 3 (usage message, no calculator built),
\* when a model file is missing (FileNotFoundError), with invalid arguments
\* or not, and when one of 3 arguments is not numeric (ValueError); with 3
\* arguments the arguments are parsed only after the calculator is built
C23_FailingExits ==
  /\ Exited /\ Len(main.argv) \notin {0, 3} =>
       /\ main.status = 1 /\ main.stdout = <<>>
       /\ main.stderr = <<Usage>>
       /\ calc = Unbuilt("solution")
  /\ Exited /\ Len(main.argv) \in {0, 3} /\ AFileIsMissing =>
       /\ main.status = 1 /\ main.stdout = <<>>
       /\ main.stderr[1] = ModelNotFound
  /\ Exited /\ Len(main.argv) = 3 /\ AnArgumentIsNonNumeric /\ ~AFileIsMissing =>
       /\ main.status = 1 /\ main.stdout = <<>>
       /\ main.stderr = <<InvalidInput>>
  /\ main.pc = "try" /\ main.parsed # <<>> => calc.state = "ready"
  /\ Exited /\ main.status = 1 => call = NoCall

\* three arguments, one of them not a number, and a model file missing: the
\* missing file is what is reported
C23_Witness ==
  /\ Exited
  /\ Len(main.argv) = 3 /\ AnArgumentIsNonNumeric /\ AFileIsMissing
  /\ main.status = 1 /\ main.stdout = <<>>
  /\ main.stderr[1] = ModelNotFound

(***************************************************************************)
(* The rate searches of the solver scripts.                                *)
(***************************************************************************)
\* best is a rate of the grid with the smallest error of the grid, and the
\* first of the rates with that error
EarliestMinimum(rates, maes, best) ==
  \E i \in DOMAIN rates :
    /\ rates[i] = best
    /\ \A j \in DOMAIN rates : maes[i] <= maes[j]
    /\ \A j \in 1..(i - 1) : maes[j] > maes[i]

\* the cases of a day of the dataset of the run
CasesOf(d) == df_of_day(dropna(solver.data), d)

\* the rows on which the run of solver_v2 or solver_v3 searched the rate of d
SearchedOn(d) == outliers_day(solver.version, solver.df_full, d)

\* the run of solver_v2 or solver_v3 has searched the rate of the day d
Searched(d) ==
  /\ solver.version \in {"v2", "v3"}
  /\ solver.state \in {"running", "done"}
  /\ d < solver.day
  /\ SearchedOn(d) # <<>>

\* C24: when a loop over the rate grid has run for a day, in solver_v2,
\* solver_v3 and solver_v7, the rate selected is a rate of the grid whose
\* error is the smallest of the whole grid, and the first of the grid among
\* the rates of that error
C24_EarliestBestRate ==
  /\ solver.version = "v7" =>
       \A d \in DOMAIN solver.final_params :
         LET df == v7_df_anomalies(CasesOf(d), solver.final_params[d])
         IN  df # <<>> =>
               EarliestMinimum(anomaly_rate_search,
                               rate_errors(fp, d, df, v7_rate_params),
                               solver.final_params[d].anomaly_rate)
  /\ \A d \in 1..7 :
       Searched(d) =>
         EarliestMinimum(outlier_rate_search,
                         two_regime_errors(solver.version, fp,
                                           current_rules(solver.version), d,
                                           SearchedOn(d)),
                         solver.final_outlier_rates[d])

\* one outlier of day 1 expected at 852.00: the rates 0.29 and 0.30 are 13.00
\* away both, and 0.29 is kept
C24_Witness ==
  /\ solver.version = "v3" /\ solver.state = "done"
  /\ solver.data = << Row(1, 100, 260000, 85200) >>
  /\ solver.final_outlier_rates[1] = 290
  /\ LET maes == two_regime_errors("v3", fp, ReferenceRules, 1, SearchedOn(1))
     IN  maes[30] = 1300 /\ maes[31] = 1300

\* C25: the rate search of a day of solver_v2 and solver_v3 writes the
\* field outlier_receipt_rate of that day's rule in current_rules and nothing
\* else: every other field of the rule and the rule of every day not
\* searched stay as written at the start, and the rate selected for a day is
\* the one the search selects on the rules as written at the start
C25_SearchFrame ==
  solver.version \in {"v2", "v3"} /\ solver.state \in {"running", "done"} =>
    \A d \in 1..7 :
      LET before == current_rules(solver.version)[d]
          now == solver.current_rules[d]
      IN  /\ DOMAIN now \ {"outlier_receipt_rate"} = DOMAIN before \ {"outlier_receipt_rate"}
          /\ \A field \in DOMAIN before \ {"outlier_receipt_rate"} :
               now[field] = before[field]
          /\ ~Searched(d) => now = before
          /\ Searched(d) =>
               /\ "outlier_receipt_rate" \in DOMAIN now
               /\ solver.final_outlier_rates[d]
                    = rate_fold(outlier_rate_search,
                                two_regime_errors(solver.version, fp,
                                                  current_rules(solver.version),
                                                  d, SearchedOn(d)), 0)

\* the rates of the days 1 and 3 searched in one run of solver_v3
C25_Witness ==
  /\ solver.version = "v3" /\ solver.state = "done"
  /\ Searched(1) /\ Searched(3) /\ ~Searched(2)
  /\ solver.final_outlier_rates[1] = 0
  /\ solver.final_outlier_rates[3] = 420
  /\ solver.current_rules[1].outlier_receipt_rate = 1000
  /\ solver.current_rules[2] = ReferenceRules[2]

(***************************************************************************)
(* The bug regime of the thresholds found by solver_v7.                    *)
(***************************************************************************)
\* v is the largest receipts value of the rows
LargestReceipts(rows, v) ==
  /\ \E i \in DOMAIN rows : rows[i].total_receipts_amount = v
  /\ \A i \in DOMAIN rows : rows[i].total_receipts_amount <= v

\* C26: for a day of at least 2 cases the bug_threshold stored by solver_v7
\* is the largest receipts value of the day's cases, no case of the day is
\* above it and the calculator with the stored params puts none of them in
\* the bug regime; the bug_rate stored is 0.005 for every day
C26_NoBugCases ==
  solver.version = "v7" =>
    \A d \in DOMAIN solver.final_params :
      LET rows == CasesOf(d)
          stored == solver.final_params[d]
      IN  /\ stored.bug_rate = 5
          /\ Len(rows) >= 2 =>
               /\ LargestReceipts(rows, stored.bug_threshold)
               /\ v7_df_bugs(rows, stored) = <<>>
               /\ \A i \in DOMAIN rows :
                    ~v7_calculate(SolverCalculator(d, stored), fp,
                                  10 * rows[i].trip_duration_days,
                                  10 * rows[i].miles_traveled,
                                  rows[i].total_receipts_amount).is_bug

\* two cases of day 1 with receipts of 1500 and 2600
C26_Witness ==
  /\ solver.version = "v7" /\ solver.state = "done"
  /\ solver.data = << Row(1, 100, 150000, 83500), Row(1, 100, 260000, 9800) >>
  /\ solver.final_params[1].bug_threshold = 260000
  /\ solver.final_params[1].bug_rate = 5

====
